---------------------------- MODULE Spec2Model ----------------------------
(***************************************************************************)
(* A model of the EDGE growth pipeline of NorMITs-Demand,                  *)
(* src/normits_demand/models/forecasting/edge_forecast.py.                 *)
(*                                                                         *)
(* Tables (pandas dataframes) are sequences of records whose fields keep   *)
(* the column names of the source.  A missing value (pandas NaN) is NaN in *)
(* a numeric column and NaS in a text column.  Real numbers are exact      *)
(* fractions held as integer numerators:                                   *)
(*   Demand of an input matrix      in units of 1/DemDen                   *)
(*   proportion (iRSj split)        in units of 1/PropDen                  *)
(*   F, R, S ticket shares          in units of 1/ShareDen                 *)
(*   T_Demand (ticket level)        in units of 1/TDen                     *)
(*   Demand_rate                    in units of 1/RateDen                  *)
(*   applied rate (methods 1, 2)    in units of 1/(2*RateDen)              *)
(*   N_Demand                       in units of 1/NDen                     *)
(*   Demand of an averaged matrix   in units of 1/(2*NDen)                 *)
(*   logged proportions             in thousandths of a percent            *)
(***************************************************************************)
EXTENDS Integers, Sequences, FiniteSets, TLC

\* pandas NaN in a numeric column (every modelled number is >= 0)
NaN == 0 - 1
\* pandas NaN in a text column
NaS == "NaN"

\* the denominators of the fixed-point fractions
DemDen == 1 + 1
PropDen == 1 + 1
ShareDen == 2 + 2
RateDen == 5 + 5
TDen == DemDen * PropDen * ShareDen
NDen == TDen * 2 * RateDen

-----------------------------------------------------------------------------
(* Generic table helpers: what the pandas primitives used by the source do *)

\* the order pandas sorts text by (groupby sorts its keys): ordinal of a text
StrOrder == <<"", "A", "B", "Business", "C", "Commuting", "F", "Leisure", "R", "S">>
SOrd(s) == CHOOSE i \in DOMAIN StrOrder : StrOrder[i] = s

RECURSIVE LexLess(_, _)
LexLess(a, b) ==
    IF Len(a) = 0 THEN FALSE
    ELSE IF Head(a) < Head(b) THEN TRUE
    ELSE IF Head(a) > Head(b) THEN FALSE
    ELSE LexLess(Tail(a), Tail(b))

\* the keys of a set in ascending order
RECURSIVE SortedSeq(_)
SortedSeq(S) ==
    IF S = {} THEN <<>>
    ELSE LET m == CHOOSE x \in S : \A y \in S : x = y \/ LexLess(x, y)
         IN <<m>> \o SortedSeq(S \ {m})

RECURSIVE Flatten(_)
Flatten(ss) == IF Len(ss) = 0 THEN <<>> ELSE Head(ss) \o Flatten(Tail(ss))

Range(s) == {s[i] : i \in DOMAIN s}

\* Series.sum(): NaN is skipped, the sum of nothing is 0
RECURSIVE SumSkipNa(_)
SumSkipNa(vals) ==
    IF Len(vals) = 0 THEN 0
    ELSE (IF Head(vals) = NaN THEN 0 ELSE Head(vals)) + SumSkipNa(Tail(vals))

\* NaN * x and x * NaN are NaN
Mul(a, b) == IF a = NaN \/ b = NaN THEN NaN ELSE a * b

\* df.merge(right, how="left"): every left row in order, joined to each matching
\* right row in the right table's order, or to NoMatch(l) when none matches
LeftMerge(L, R, Match(_, _), Join(_, _), NoMatch(_)) ==
    Flatten([i \in DOMAIN L |->
        LET hits == SelectSeq(R, LAMBDA r : Match(L[i], r))
        IN IF Len(hits) = 0 THEN <<NoMatch(L[i])>>
           ELSE [j \in DOMAIN hits |-> Join(L[i], hits[j])]])

\* df.groupby(keys)[col].sum().reset_index(): one row per key present, in
\* ascending key order; rows with a NaN key are dropped (dropna defaults to True)
GroupSum(T, Key(_), KeyIsNa(_), Val(_), Mk(_, _)) ==
    LET kept == SelectSeq(T, LAMBDA r : ~KeyIsNa(r))
        keys == SortedSeq({Key(kept[i]) : i \in DOMAIN kept})
    IN [n \in DOMAIN keys |->
          LET grp == SelectSeq(kept, LAMBDA r : Key(r) = keys[n])
          IN Mk(grp[1], SumSkipNa([i \in DOMAIN grp |-> Val(grp[i])]))]

\* df.drop_duplicates(subset): the first row of every key is kept
DropDuplicates(T, Key(_)) ==
    LET firsts == {i \in DOMAIN T : \A j \in 1..(i - 1) : Key(T[j]) # Key(T[i])}
        F[i \in 0..Len(T)] ==
            IF i = 0 THEN <<>>
            ELSE IF i \in firsts THEN Append(F[i - 1], T[i]) ELSE F[i - 1]
    IN F[Len(T)]


-----------------------------------------------------------------------------
(* State of run_edge_growth and of the functions it calls                   *)

VARIABLES
    pc,                   \* position in run_edge_growth / in the driver of a function
    edgeFactors0,         \* edge_growth_factors as read, with Flag = 1 (line 1189)
    edge_growth_factors,  \* the factor table threaded through the loop
    other_tickets_df,     \* audit: demand that used another ticket type's factor
    no_factors_df,        \* audit: demand with no factor at all
    calls,                \* number of create_factors_for_missing_moira_movements calls
    lastMx,               \* the demand table (by F, R, S) given to the last call
    method,               \* segments_method[segment] of the unit factored last
    joined,               \* the last unit's ticket records joined to their rates
    scenario,             \* the input files of the run: demand matrices, factor table
    missingFiles,         \* the input files that are not in matrices_to_grow_dir
    period,               \* index in periods of the period being processed
    segment,              \* index in demand_segment_list of the segment being processed
    demand_total,         \* the running sum of the rounded input demand totals
    factored_matrices,    \* factored_matrices[period][segment]
    unitSums,             \* per unit: the sums of Demand, T_Demand and N_Demand
    logging_info,         \* what prepare_logging_info returned
    gate,                 \* the outcome of the test of line 1388
    norms_matrices1,      \* the NoRMS matrices to write
    written,              \* the names of the matrices written by to_csv, in order
    exitStatus,           \* the status sys.exit() ended the process with
    notFound              \* the file check_file_exist reported as not found

\* the variables only run_edge_growth as a whole uses
runVars == <<scenario, missingFiles, period, segment, demand_total, factored_matrices,
             unitSums, logging_info, gate, norms_matrices1, written, exitStatus,
             notFound>>

vars == <<pc, edgeFactors0, edge_growth_factors, other_tickets_df, no_factors_df,
          calls, lastMx, method, joined, runVars>>

-----------------------------------------------------------------------------
(* create_factors_for_missing_moira_movements (the Factor Resolver)         *)

\* value_vars of pd.melt, in the order the melted blocks are stacked
TicketTypes == <<"F", "R", "S">>

\* pd.melt + rename: all rows with their F, then all with their R, then their S
Melt(mx) ==
    Flatten([t \in DOMAIN TicketTypes |->
        [i \in DOMAIN mx |->
            [from_model_zone_id |-> mx[i].from_model_zone_id,
             to_model_zone_id   |-> mx[i].to_model_zone_id,
             from_stn_zone_id   |-> mx[i].from_stn_zone_id,
             ZoneCodeFrom       |-> mx[i].O_TLC,
             to_stn_zone_id     |-> mx[i].to_stn_zone_id,
             ZoneCodeTo         |-> mx[i].D_TLC,
             userclass          |-> mx[i].userclass,
             purpose            |-> mx[i].Purpose,
             TicketType         |-> TicketTypes[t],
             T_Demand           |-> mx[i][TicketTypes[t]]]]])

\* a mutant: the rows without a growth rate are kept
DropNaRatesKept(edgeFactors) == edgeFactors

\* the factor rows kept: those whose growth rate is not NaN
DropNaRates(edgeFactors) ==
    SelectSeq(edgeFactors, LAMBDA f : f.Demand_rate # NaN)

SameKey(l, r) ==
    /\ l.ZoneCodeFrom = r.ZoneCodeFrom
    /\ l.ZoneCodeTo = r.ZoneCodeTo
    /\ l.TicketType = r.TicketType
    /\ l.purpose = r.purpose

SameMovement(l, r) ==
    /\ l.ZoneCodeFrom = r.ZoneCodeFrom
    /\ l.ZoneCodeTo = r.ZoneCodeTo
    /\ l.purpose = r.purpose

\* a mutant: the merge leaves TicketType out of its keys
MergeFactorsAnyTicket(mx, edgeFactors) ==
    LeftMerge(mx, edgeFactors, SameMovement,
              LAMBDA l, r : l @@ [Demand_rate |-> r.Demand_rate, Flag |-> r.Flag],
              LAMBDA l : l @@ [Demand_rate |-> NaN, Flag |-> NaN])

\* mx.merge(edgeFactors, how="left", on=[ZoneCodeFrom, ZoneCodeTo, TicketType, purpose])
MergeFactors(mx, edgeFactors) ==
    LeftMerge(mx, edgeFactors, SameKey,
              LAMBDA l, r : l @@ [Demand_rate |-> r.Demand_rate, Flag |-> r.Flag],
              LAMBDA l : l @@ [Demand_rate |-> NaN, Flag |-> NaN])

\* a mutant: every record is taken as missing, whether or not a factor matched
MissingMoiraAll(merged) == merged

\* the records of movements missing in MOIRA: no factor matched their key
MissingMoira(merged) ==
    SelectSeq(merged, LAMBDA r : r.Demand_rate = NaN)

\* the zonal copy with its Internal column.  Lines 490-493 select the rows
\* with both zones below 1158 and assign nothing: Internal stays 0
MissingMoiraZonal(missing_moira) ==
    [i \in DOMAIN missing_moira |-> missing_moira[i] @@ [Internal |-> 0]]

KeyCodesNa(r) == r.ZoneCodeFrom = NaS \/ r.ZoneCodeTo = NaS \/ r.purpose = NaS

\* group to stn2stn: T_Demand summed by (ZoneCodeFrom, ZoneCodeTo, TicketType, purpose)
GroupMissingMoira(missing_moira) ==
    GroupSum(missing_moira,
             LAMBDA r : <<SOrd(r.ZoneCodeFrom), SOrd(r.ZoneCodeTo),
                          SOrd(r.TicketType), SOrd(r.purpose)>>,
             KeyCodesNa,
             LAMBDA r : r.T_Demand,
             LAMBDA r, total : [ZoneCodeFrom |-> r.ZoneCodeFrom,
                                ZoneCodeTo   |-> r.ZoneCodeTo,
                                TicketType   |-> r.TicketType,
                                purpose      |-> r.purpose,
                                T_Demand     |-> total])

\* a mutant: the factors of the same movement of any purpose are taken
MergeOtherTicketsAnyPurpose(missing, edgeFactors) ==
    LeftMerge(missing, edgeFactors,
              LAMBDA l, r : l.ZoneCodeFrom = r.ZoneCodeFrom /\ l.ZoneCodeTo = r.ZoneCodeTo,
              LAMBDA l, r : [f \in (DOMAIN l) \ {"TicketType", "Demand_rate", "Flag"} |-> l[f]]
                            @@ [Missing_TicketType   |-> l.TicketType,
                                Available_TicketType |-> r.TicketType,
                                Demand_rate          |-> r.Demand_rate],
              LAMBDA l : [f \in (DOMAIN l) \ {"TicketType", "Demand_rate", "Flag"} |-> l[f]]
                            @@ [Missing_TicketType   |-> l.TicketType,
                                Available_TicketType |-> NaS,
                                Demand_rate          |-> NaN])

\* merge on (ZoneCodeFrom, ZoneCodeTo, purpose) and rename: the factors of any
\* ticket type of the same movement and purpose
MergeOtherTickets(missing, edgeFactors) ==
    LeftMerge(missing, edgeFactors, SameMovement,
              LAMBDA l, r : [f \in (DOMAIN l) \ {"TicketType", "Demand_rate", "Flag"} |-> l[f]]
                            @@ [Missing_TicketType   |-> l.TicketType,
                                Available_TicketType |-> r.TicketType,
                                Demand_rate          |-> r.Demand_rate],
              LAMBDA l : [f \in (DOMAIN l) \ {"TicketType", "Demand_rate", "Flag"} |-> l[f]]
                            @@ [Missing_TicketType   |-> l.TicketType,
                                Available_TicketType |-> NaS,
                                Demand_rate          |-> NaN])

MissingKey(r) == <<r.ZoneCodeFrom, r.ZoneCodeTo, r.Missing_TicketType, r.purpose>>

\* a mutant: no drop_duplicates, one borrowed row per available ticket type
AvailableTicketNoDedup(missing_merged) ==
    LET avail == SelectSeq(missing_merged, LAMBDA r : r.Available_TicketType # NaS)
    IN [i \in DOMAIN avail |->
          [ZoneCodeFrom |-> avail[i].ZoneCodeFrom,
           ZoneCodeTo   |-> avail[i].ZoneCodeTo,
           purpose      |-> avail[i].purpose,
           TicketType   |-> avail[i].Missing_TicketType,
           Demand_rate  |-> avail[i].Demand_rate,
           Flag         |-> 0]]

\* the borrowed factors: the rows with an available ticket type, one kept per
\* (ZoneCodeFrom, ZoneCodeTo, Missing_TicketType, purpose), flagged 0
AvailableTicket(missing_merged) ==
    LET avail == SelectSeq(missing_merged, LAMBDA r : r.Available_TicketType # NaS)
        kept  == DropDuplicates(avail, MissingKey)
    IN [i \in DOMAIN kept |->
          [ZoneCodeFrom |-> kept[i].ZoneCodeFrom,
           ZoneCodeTo   |-> kept[i].ZoneCodeTo,
           purpose      |-> kept[i].purpose,
           TicketType   |-> kept[i].Missing_TicketType,
           Demand_rate  |-> kept[i].Demand_rate,
           Flag         |-> 0]]

\* the substitution log of one call: demand by (movement, purpose, missing and
\* available ticket type, Internal) of the zonal rows with an available ticket type
AvailableTicketLog(zonal_merged) ==
    GroupSum(SelectSeq(zonal_merged, LAMBDA r : r.Available_TicketType # NaS),
             LAMBDA r : <<SOrd(r.ZoneCodeFrom), SOrd(r.ZoneCodeTo), SOrd(r.purpose),
                          SOrd(r.Missing_TicketType), SOrd(r.Available_TicketType),
                          r.Internal>>,
             KeyCodesNa,
             LAMBDA r : r.T_Demand,
             LAMBDA r, total : [ZoneCodeFrom         |-> r.ZoneCodeFrom,
                                ZoneCodeTo           |-> r.ZoneCodeTo,
                                purpose              |-> r.purpose,
                                Missing_TicketType   |-> r.Missing_TicketType,
                                Available_TicketType |-> r.Available_TicketType,
                                Internal             |-> r.Internal,
                                T_Demand             |-> total])

\* a mutant: the unfactored log takes every missing record, also those for
\* which another ticket type has a factor
MissingTicketAll(zonal_merged) ==
    GroupSum(zonal_merged,
             LAMBDA r : <<SOrd(r.ZoneCodeFrom), SOrd(r.ZoneCodeTo), r.Internal>>,
             LAMBDA r : r.ZoneCodeFrom = NaS \/ r.ZoneCodeTo = NaS,
             LAMBDA r : r.T_Demand,
             LAMBDA r, total : [ZoneCodeFrom |-> r.ZoneCodeFrom,
                                ZoneCodeTo   |-> r.ZoneCodeTo,
                                Internal     |-> r.Internal,
                                T_Demand     |-> total])

\* the unfactored log of one call: demand by (ZoneCodeFrom, ZoneCodeTo, Internal)
\* of the zonal rows for which no ticket type has a factor
MissingTicket(zonal_merged) ==
    GroupSum(SelectSeq(zonal_merged, LAMBDA r : r.Available_TicketType = NaS),
             LAMBDA r : <<SOrd(r.ZoneCodeFrom), SOrd(r.ZoneCodeTo), r.Internal>>,
             LAMBDA r : r.ZoneCodeFrom = NaS \/ r.ZoneCodeTo = NaS,
             LAMBDA r : r.T_Demand,
             LAMBDA r, total : [ZoneCodeFrom |-> r.ZoneCodeFrom,
                                ZoneCodeTo   |-> r.ZoneCodeTo,
                                Internal     |-> r.Internal,
                                T_Demand     |-> total])

\* the whole function: (upd_edge_factors, other_tickets_df, no_factors_df)
create_factors_for_missing_moira_movements(mx, edgeFactors, other, nofactors) ==
    LET factors == DropNaRates(edgeFactors)
        merged  == MergeFactors(Melt(mx), factors)
        missing_moira == MissingMoira(merged)
        zonal   == MergeOtherTickets(MissingMoiraZonal(missing_moira), factors)
        grouped == MergeOtherTickets(GroupMissingMoira(missing_moira), factors)
    IN [upd_edge_factors |-> factors \o AvailableTicket(grouped),
        other_tickets_df |-> other \o AvailableTicketLog(zonal),
        no_factors_df    |-> nofactors \o MissingTicket(zonal)]


-----------------------------------------------------------------------------
(* apply_edge_growth_method1 and apply_edge_growth_method2 (Growth          *)
(* Applicator).  Applied rates are in units of 1/(2*RateDen)                *)

\* a mutant: a record without a factor is given rate 0
FillRate1Zero(rate) == IF rate = NaN THEN 0 ELSE 2 * rate

\* fillna(1) of a rate of method 1
FillRate1(rate) == IF rate = NaN THEN 2 * RateDen ELSE 2 * rate

\* lines 632-640: the join of method 1, the rate with NaN filled by 1, N_Demand
Method1Joined(mx, edgeFactors) ==
    LET merged == MergeFactors(Melt(mx), edgeFactors)
    IN [i \in DOMAIN merged |->
          LET rate == FillRate1(merged[i].Demand_rate)
          IN [f \in (DOMAIN merged[i]) \ {"Flag"} |-> merged[i][f]]
             @@ [Applied_rate |-> rate,
                 N_Demand |-> Mul(merged[i].T_Demand, rate)]]

\* a mutant: the rate of the record's own direction only
MeanRateForwardOnly(first, second) ==
    IF first = NaN THEN 2 * RateDen ELSE 2 * first

\* a mutant: a direction without a factor counts as 1.0 inside the mean
MeanRateMissingAsOne(first, second) ==
    (IF first = NaN THEN RateDen ELSE first) + (IF second = NaN THEN RateDen ELSE second)

\* lines 730-732: DataFrame.mean(axis=1) skips NaN, so the mean of one rate
\* and NaN is that rate; the mean of two NaN is NaN, which fillna(1) makes 1
MeanRate(first, second) ==
    IF first = NaN /\ second = NaN THEN 2 * RateDen
    ELSE IF first = NaN THEN 2 * second
    ELSE IF second = NaN THEN 2 * first
    ELSE first + second

\* the second merge of method 2: the factor of the opposite direction
ReverseKey(l, r) ==
    /\ l.ZoneCodeFrom = r.ZoneCodeTo
    /\ l.ZoneCodeTo = r.ZoneCodeFrom
    /\ l.TicketType = r.TicketType
    /\ l.purpose = r.purpose

\* lines 707-739: both joins of method 2, the averaged rate, N_Demand
Method2Joined(mx, edgeFactors) ==
    LET first ==
            LeftMerge(Melt(mx), edgeFactors, SameKey,
                LAMBDA l, r : l @@ [Dir1_Growth |-> r.Demand_rate, Flag_x |-> r.Flag],
                LAMBDA l : l @@ [Dir1_Growth |-> NaN, Flag_x |-> NaN])
        both ==
            LeftMerge(first, edgeFactors, ReverseKey,
                LAMBDA l, r : l @@ [Dir2_Growth |-> r.Demand_rate, Flag_y |-> r.Flag],
                LAMBDA l : l @@ [Dir2_Growth |-> NaN, Flag_y |-> NaN])
    IN [i \in DOMAIN both |->
          LET rate == MeanRate(both[i].Dir1_Growth, both[i].Dir2_Growth)
          IN [f \in (DOMAIN both[i]) \ {"Flag_x", "Flag_y"} |-> both[i][f]]
             @@ [Applied_rate |-> rate,
                 N_Demand |-> Mul(both[i].T_Demand, rate)]]

\* the columns both methods return
GrownColumns(rows) ==
    [i \in DOMAIN rows |->
        [f \in {"from_model_zone_id", "to_model_zone_id", "from_stn_zone_id",
                "ZoneCodeFrom", "to_stn_zone_id", "ZoneCodeTo", "userclass",
                "purpose", "TicketType", "T_Demand", "N_Demand"} |-> rows[i][f]]]

apply_edge_growth_method1(mx, edgeFactors) == GrownColumns(Method1Joined(mx, edgeFactors))

apply_edge_growth_method2(mx, edgeFactors) == GrownColumns(Method2Joined(mx, edgeFactors))

\* lines 1349-1354 before the columns are cut: the method the segment selects
JoinedByMethod(m, mx, edgeFactors) ==
    IF m = 1 THEN Method1Joined(mx, edgeFactors) ELSE Method2Joined(mx, edgeFactors)

-----------------------------------------------------------------------------
(* Movement Expander, Flow & Band Classifier, Ticket Split Applier          *)

\* a row of the table apply_ticket_splits returns
WideRow(fz, tz, fs, ts, o, d, uc, purpose, f, r, s) ==
    [from_model_zone_id |-> fz, to_model_zone_id |-> tz,
     from_stn_zone_id |-> fs, O_TLC |-> o, to_stn_zone_id |-> ts, D_TLC |-> d,
     userclass |-> uc, Purpose |-> purpose, F |-> f, R |-> r, S |-> s]


\* a mutant: nothing is swapped
transpose_matrix_unchanged(mx) == mx

\* transpose_matrix: origin and destination zone swapped
transpose_matrix(mx) ==
    [i \in DOMAIN mx |->
        [mx[i] EXCEPT !.from_model_zone_id = mx[i].to_model_zone_id,
                      !.to_model_zone_id = mx[i].from_model_zone_id]]

\* add_tls2stations_matrix: the station codes of both stations (NaS if none)
add_tls2stations_matrix(mx, stnTLC) ==
    LET withO == LeftMerge(mx, stnTLC,
                     LAMBDA l, r : l.from_stn_zone_id = r.stn_zone_id,
                     LAMBDA l, r : l @@ [O_TLC |-> r.STATIONCODE],
                     LAMBDA l : l @@ [O_TLC |-> NaS])
    IN LeftMerge(withO, stnTLC,
                     LAMBDA l, r : l.to_stn_zone_id = r.stn_zone_id,
                     LAMBDA l, r : l @@ [D_TLC |-> r.STATIONCODE],
                     LAMBDA l : l @@ [D_TLC |-> NaS])

\* lines 143-177 and 225-259, shared by both expanders: demand times
\* proportion, summed by zone pair, station pair and userclass (a row without
\* stations is dropped by the groupby), origin station 0 removed, distance and
\* station codes added.  Demand is now in units of 1/(DemDen*PropDen)
ExpandToStations(df, distMX, stnTLC) ==
    LET scaled == [i \in DOMAIN df |->
                      [df[i] EXCEPT !.Demand = Mul(df[i].Demand, df[i].proportion)]]
        grouped ==
            GroupSum(scaled,
                LAMBDA r : <<r.from_model_zone_id, r.to_model_zone_id,
                             r.from_stn_zone_id, r.to_stn_zone_id, r.userclass>>,
                LAMBDA r : r.from_stn_zone_id = NaN \/ r.to_stn_zone_id = NaN,
                LAMBDA r : r.Demand,
                LAMBDA r, total : [from_model_zone_id |-> r.from_model_zone_id,
                                   to_model_zone_id   |-> r.to_model_zone_id,
                                   from_stn_zone_id   |-> r.from_stn_zone_id,
                                   to_stn_zone_id     |-> r.to_stn_zone_id,
                                   userclass          |-> r.userclass,
                                   Demand             |-> total])
        stations == SelectSeq(grouped, LAMBDA r : r.from_stn_zone_id # 0)
        withDist ==
            LeftMerge(stations, distMX,
                LAMBDA l, r : /\ l.from_stn_zone_id = r.from_stn_zone_id
                              /\ l.to_stn_zone_id = r.to_stn_zone_id,
                LAMBDA l, r : l @@ [Distance |-> r.tran_distance],
                LAMBDA l : l @@ [Distance |-> NaN])
    IN add_tls2stations_matrix(withDist, stnTLC)

\* a mutant: the join to the split probabilities leaves the userclass out
prepare_stn2stn_matrix_anyclass(demandMX, iRSjProps, distMX, stnTLC) ==
    ExpandToStations(
        LeftMerge(demandMX, iRSjProps,
            LAMBDA l, r : /\ l.from_model_zone_id = r.from_model_zone_id
                          /\ l.to_model_zone_id = r.to_model_zone_id,
            LAMBDA l, r : l @@ [from_stn_zone_id |-> r.from_stn_zone_id,
                                to_stn_zone_id   |-> r.to_stn_zone_id,
                                proportion       |-> r.proportion],
            LAMBDA l : l @@ [from_stn_zone_id |-> NaN, to_stn_zone_id |-> NaN,
                             proportion |-> NaN]),
        distMX, stnTLC)

\* prepare_stn2stn_matrix: the demand cells joined to the split probabilities
\* of the same (from zone, to zone, userclass)
prepare_stn2stn_matrix(demandMX, iRSjProps, distMX, stnTLC) ==
    ExpandToStations(
        LeftMerge(demandMX, iRSjProps,
            LAMBDA l, r : /\ l.from_model_zone_id = r.from_model_zone_id
                          /\ l.to_model_zone_id = r.to_model_zone_id
                          /\ l.userclass = r.userclass,
            LAMBDA l, r : l @@ [from_stn_zone_id |-> r.from_stn_zone_id,
                                to_stn_zone_id   |-> r.to_stn_zone_id,
                                proportion       |-> r.proportion],
            LAMBDA l : l @@ [from_stn_zone_id |-> NaN, to_stn_zone_id |-> NaN,
                             proportion |-> NaN]),
        distMX, stnTLC)

\* a mutant: the transposed matrix is joined to the probabilities of its own
\* direction
prepare_stn2stn_matrix_tohome_inbound(demandMX, iRSjProps, distMX, stnTLC) ==
    prepare_stn2stn_matrix(transpose_matrix(demandMX), iRSjProps, distMX, stnTLC)

\* prepare_stn2stn_matrix_tohome: the matrix is transposed, then its (from, to)
\* is joined to the (to, from) of the probabilities; the zones kept are those
\* of the transposed matrix
prepare_stn2stn_matrix_tohome(demandMX, iRSjProps, distMX, stnTLC) ==
    ExpandToStations(
        LeftMerge(transpose_matrix(demandMX), iRSjProps,
            LAMBDA l, r : /\ l.from_model_zone_id = r.to_model_zone_id
                          /\ l.to_model_zone_id = r.from_model_zone_id
                          /\ l.userclass = r.userclass,
            LAMBDA l, r : l @@ [from_stn_zone_id |-> r.from_stn_zone_id,
                                to_stn_zone_id   |-> r.to_stn_zone_id,
                                proportion       |-> r.proportion],
            LAMBDA l : l @@ [from_stn_zone_id |-> NaN, to_stn_zone_id |-> NaN,
                             proportion |-> NaN]),
        distMX, stnTLC)

\* assign_edge_flow: the EDGE flow of the station codes, then its TAG
\* non-distance flow
assign_edge_flow(flows_file, flows_lookup, mx) ==
    LET withFlow ==
            LeftMerge(mx, flows_file,
                LAMBDA l, r : l.O_TLC = r.FromCaseZoneID /\ l.D_TLC = r.ToCaseZoneID,
                LAMBDA l, r : l @@ [FlowCatName |-> r.FlowCatName],
                LAMBDA l : l @@ [FlowCatName |-> NaS])
    IN LeftMerge(withFlow, flows_lookup,
                LAMBDA l, r : l.FlowCatName = r.FlowCatName,
                LAMBDA l, r : l @@ [TAG_NonDist |-> r.TAG_NonDist],
                LAMBDA l : l @@ [TAG_NonDist |-> NaS])

\* the distance thresholds of add_distance_band_tag_flow, in miles
ShortBand == 25
LongBand == 100

\* a mutant: a distance on a threshold falls in the band below it
TagFlowInclusive(nonDist, dist) ==
    IF dist = NaN THEN nonDist
    ELSE IF nonDist = "Outside South East" THEN
        (IF dist <= ShortBand THEN "Outside South East <25 miles"
         ELSE IF dist <= LongBand THEN "Outside South East 25 to 100 miles"
         ELSE "Outside South East  100 + miles - adjusted")
    ELSE IF nonDist = "Outside South East to/from London" THEN
        (IF dist <= LongBand THEN "Outside South East to/from London < 100 miles"
         ELSE "Outside South East to/from London 100 + miles")
    ELSE nonDist

\* the TAG flow of one record: a comparison with a NaN distance is False
TagFlow(nonDist, dist) ==
    IF dist = NaN THEN nonDist
    ELSE IF nonDist = "Outside South East" THEN
        (IF dist < ShortBand THEN "Outside South East <25 miles"
         ELSE IF dist < LongBand THEN "Outside South East 25 to 100 miles"
         ELSE "Outside South East  100 + miles - adjusted")
    ELSE IF nonDist = "Outside South East to/from London" THEN
        (IF dist < LongBand THEN "Outside South East to/from London < 100 miles"
         ELSE "Outside South East to/from London 100 + miles")
    ELSE nonDist

add_distance_band_tag_flow(df) ==
    [i \in DOMAIN df |-> df[i] @@ [TAG_Flow |-> TagFlow(df[i].TAG_NonDist, df[i].Distance)]]

\* a mutant: userclass 6 is taken as a leisure class
PurposeOfSixLeisure(uc) ==
    IF uc \in {1, 2, 3} THEN "Business"
    ELSE IF uc \in {4, 5} THEN "Commuting"
    ELSE IF uc \in {6, 7, 8, 9} THEN "Leisure"
    ELSE ""

\* the purpose of a userclass: 1-3 Business, 4-6 Commuting, 7-9 Leisure
PurposeOf(uc) ==
    IF uc \in {1, 2, 3} THEN "Business"
    ELSE IF uc \in {4, 5, 6} THEN "Commuting"
    ELSE IF uc \in {7, 8, 9} THEN "Leisure"
    ELSE ""

assign_purposes(df) ==
    [i \in DOMAIN df |-> df[i] @@ [Purpose |-> PurposeOf(df[i].userclass)]]

\* line 1335: the ticket split proportions of (TAG_Flow, Purpose), NaN if none
MergeTicketSplits(df, ticket_type_splits) ==
    LeftMerge(df, ticket_type_splits,
        LAMBDA l, r : l.TAG_Flow = r.TAG_Flow /\ l.Purpose = r.Purpose,
        LAMBDA l, r : l @@ [F |-> r.F, R |-> r.R, S |-> r.S],
        LAMBDA l : l @@ [F |-> NaN, R |-> NaN, S |-> NaN])

\* apply_ticket_splits: demand by ticket type, in units of 1/TDen
apply_ticket_splits(df) ==
    [i \in DOMAIN df |->
        WideRow(df[i].from_model_zone_id, df[i].to_model_zone_id,
                df[i].from_stn_zone_id, df[i].to_stn_zone_id,
                df[i].O_TLC, df[i].D_TLC, df[i].userclass, df[i].Purpose,
                Mul(df[i].F, df[i].Demand), Mul(df[i].R, df[i].Demand),
                Mul(df[i].S, df[i].Demand))]

\* lines 1357-1363: back to a zone to zone matrix
ZoneMatrix(grown) ==
    GroupSum(grown,
        LAMBDA r : <<r.from_model_zone_id, r.to_model_zone_id>>,
        LAMBDA r : FALSE,
        LAMBDA r : r.N_Demand,
        LAMBDA r, total :
            [from_model_zone_id |-> r.from_model_zone_id,
             to_model_zone_id   |-> r.to_model_zone_id,
             T_Demand |-> SumSkipNa(
                 LET same == SelectSeq(grown, LAMBDA q :
                                 /\ q.from_model_zone_id = r.from_model_zone_id
                                 /\ q.to_model_zone_id = r.to_model_zone_id)
                 IN [j \in DOMAIN same |-> same[j].T_Demand]),
             N_Demand |-> total])

-----------------------------------------------------------------------------
(* Quality Gate figures and the Period & Segment Combiner                   *)

\* Python round(): the nearest integer to num/den, a tie going to the even one
RoundHalfEven(num, den) ==
    LET q == num \div den
        r == num % den
    IN IF 2 * r < den THEN q
       ELSE IF 2 * r > den THEN q + 1
       ELSE IF q % 2 = 0 THEN q ELSE q + 1

\* x/0 for x > 0 in numpy arithmetic (0/0 is NaN)
Inf == 0 - 2

\* round(num / den * 100, 3) in thousandths of a percent: the whole percents,
\* then the rounded thousandths of the rest
PercentRounded(num, den) ==
    IF den = 0 THEN (IF num = 0 THEN NaN ELSE Inf)
    ELSE ((num * 100) \div den) * 1000 + RoundHalfEven(((num * 100) % den) * 1000, den)

Column(T, col) == [i \in DOMAIN T |-> T[i][col]]

\* no_factors_df summed by (ZoneCodeFrom, ZoneCodeTo, Internal)
GroupNoFactors(nofactors) ==
    GroupSum(nofactors,
             LAMBDA r : <<SOrd(r.ZoneCodeFrom), SOrd(r.ZoneCodeTo), r.Internal>>,
             LAMBDA r : r.ZoneCodeFrom = NaS \/ r.ZoneCodeTo = NaS,
             LAMBDA r : r.T_Demand,
             LAMBDA r, total : [ZoneCodeFrom |-> r.ZoneCodeFrom,
                                ZoneCodeTo   |-> r.ZoneCodeTo,
                                Internal     |-> r.Internal,
                                T_Demand     |-> total])

\* the regrouping for the log: summed by (ZoneCodeFrom, ZoneCodeTo)
GroupNoFactorsLog(nofactors) ==
    GroupSum(nofactors,
             LAMBDA r : <<SOrd(r.ZoneCodeFrom), SOrd(r.ZoneCodeTo)>>,
             LAMBDA r : r.ZoneCodeFrom = NaS \/ r.ZoneCodeTo = NaS,
             LAMBDA r : r.T_Demand,
             LAMBDA r, total : [ZoneCodeFrom |-> r.ZoneCodeFrom,
                                ZoneCodeTo   |-> r.ZoneCodeTo,
                                T_Demand     |-> total])

\* the regrouping for the log: other_tickets_df summed without Internal
GroupOtherTicketsLog(other) ==
    GroupSum(other,
             LAMBDA r : <<SOrd(r.ZoneCodeFrom), SOrd(r.ZoneCodeTo), SOrd(r.purpose),
                          SOrd(r.Missing_TicketType), SOrd(r.Available_TicketType)>>,
             KeyCodesNa,
             LAMBDA r : r.T_Demand,
             LAMBDA r, total : [ZoneCodeFrom         |-> r.ZoneCodeFrom,
                                ZoneCodeTo           |-> r.ZoneCodeTo,
                                purpose              |-> r.purpose,
                                Missing_TicketType   |-> r.Missing_TicketType,
                                Available_TicketType |-> r.Available_TicketType,
                                T_Demand             |-> total])

\* prepare_logging_info: both audits summed by their keys, the four
\* proportions, the audits regrouped for the log.  T_Demand is in 1/TDen and
\* demand_total in whole trips
prepare_logging_info(other_tickets, no_factors, total) ==
    LET other     == AvailableTicketLog(other_tickets)
        nofactors == GroupNoFactors(no_factors)
        demand_total_ticket == SumSkipNa(Column(other, "T_Demand"))
        demand_total_ticket_internal ==
            SumSkipNa(Column(SelectSeq(other, LAMBDA r : r.Internal = 1), "T_Demand"))
        demand_total_factors == SumSkipNa(Column(nofactors, "T_Demand"))
        demand_total_factors_internal ==
            SumSkipNa(Column(SelectSeq(nofactors, LAMBDA r : r.Internal = 1), "T_Demand"))
    IN [other_tickets_df      |-> GroupOtherTicketsLog(other),
        no_factors_df         |-> GroupNoFactorsLog(nofactors),
        no_factor_demand_prop |-> PercentRounded(demand_total_factors, TDen * total),
        tickets_demand_prop   |-> PercentRounded(demand_total_ticket, TDen * total),
        tickets_internal_prop |->
            PercentRounded(demand_total_ticket_internal, demand_total_ticket),
        factors_internal_prop |->
            PercentRounded(demand_total_factors_internal, demand_total_factors)]

\* a mutant: the threshold is never exceeded
ExceedsThresholdNever(prop) == FALSE

\* line 1388: no_factor_demand_prop > 1 (NaN > 1 is False, inf > 1 is True)
ExceedsThreshold(prop) == prop = Inf \/ (prop # NaN /\ prop > 1000)

\* df.merge(right, how="outer"): the keys of both tables in ascending order,
\* each with the joined rows of both sides or the row of the one side it has
OuterMerge(L, R, Key(_), Join(_, _), LeftOnly(_), RightOnly(_)) ==
    LET keys == SortedSeq({Key(L[i]) : i \in DOMAIN L} \cup {Key(R[i]) : i \in DOMAIN R})
    IN Flatten([n \in DOMAIN keys |->
          LET ls == SelectSeq(L, LAMBDA l : Key(l) = keys[n])
              rs == SelectSeq(R, LAMBDA r : Key(r) = keys[n])
          IN IF Len(rs) = 0 THEN [i \in DOMAIN ls |-> LeftOnly(ls[i])]
             ELSE IF Len(ls) = 0 THEN [j \in DOMAIN rs |-> RightOnly(rs[j])]
             ELSE Flatten([i \in DOMAIN ls |-> [j \in DOMAIN rs |-> Join(ls[i], rs[j])]])])

ZoneKey(r) == <<r.from_model_zone_id, r.to_model_zone_id>>

ZonePair(r) == [from_model_zone_id |-> r.from_model_zone_id,
                to_model_zone_id |-> r.to_model_zone_id]

\* one outer merge of sum_periods_demand: the column col of the next period
AddPeriod(comb, mx, col) ==
    OuterMerge(comb, mx, ZoneKey,
        LAMBDA l, r : (col :> r[col]) @@ l,
        LAMBDA l : (col :> NaN) @@ l,
        LAMBDA r : r @@ [f \in {"AM_Demand", "IP_Demand", "PM_Demand", "OP_Demand"} \ {col}
                            |-> NaN])

\* a mutant: NaN is left in place
FillNa0Kept(x) == x

\* fillna(0) of one value
FillNa0(x) == IF x = NaN THEN 0 ELSE x

\* sum_periods_demand: the four period matrices outer-joined on the zone pair,
\* NaN filled with 0, and summed
sum_periods_demand(am, ip, pm, op) ==
    LET comb == AddPeriod(AddPeriod(AddPeriod(am, ip, "IP_Demand"),
                                    pm, "PM_Demand"), op, "OP_Demand")
    IN [i \in DOMAIN comb |->
          ZonePair(comb[i]) @@
          [Demand |-> FillNa0(comb[i].AM_Demand) + FillNa0(comb[i].IP_Demand)
                      + FillNa0(comb[i].PM_Demand) + FillNa0(comb[i].OP_Demand)]]

\* the number of model zones (the default of the zones parameter is 1300)
NumZones == 2

\* a mutant: the grid stops one pair short
ZoneGridShort(zones) ==
    [n \in 1..(zones * zones - 1) |->
        [from_model_zone_id |-> ((n - 1) \div zones) + 1,
         to_model_zone_id   |-> ((n - 1) % zones) + 1]]

\* itertools.product(range(1, zones + 1), range(1, zones + 1))
ZoneGrid(zones) ==
    [n \in 1..(zones * zones) |->
        [from_model_zone_id |-> ((n - 1) \div zones) + 1,
         to_model_zone_id   |-> ((n - 1) % zones) + 1]]

\* expand_matrix: the full grid outer-joined with the matrix, NaN filled with 0
expand_matrix(mx, zones) ==
    OuterMerge(ZoneGrid(zones), mx, ZoneKey,
        LAMBDA l, r : l @@ [Demand |-> FillNa0(r.Demand)],
        LAMBDA l : l @@ [Demand |-> 0],
        LAMBDA r : ZonePair(r) @@ [Demand |-> FillNa0(r.Demand)])

\* average_two_matrices: the grid outer-joined with both matrices, NaN filled
\* with 0, Demand = (Demand_x + Demand_y) / 2.  The mean is held in halves of
\* the unit of its arguments
average_two_matrices(mx1, mx2, zones) ==
    LET one == expand_matrix(mx1, zones)
        two == OuterMerge(one, mx2, ZoneKey,
                   LAMBDA l, r : ZonePair(l) @@ [Demand_x |-> l.Demand,
                                                 Demand_y |-> FillNa0(r.Demand)],
                   LAMBDA l : ZonePair(l) @@ [Demand_x |-> l.Demand, Demand_y |-> 0],
                   LAMBDA r : ZonePair(r) @@ [Demand_x |-> 0,
                                              Demand_y |-> FillNa0(r.Demand)])
    IN [i \in DOMAIN two |->
          ZonePair(two[i]) @@ [Demand |-> two[i].Demand_x + two[i].Demand_y]]

\* a mutant: a to-home segment is written out as well
norms_segments_and_tohome ==
    <<"HBEBCA_Int", "HBEBNCA_Int", "NHBEBCA_Int", "NHBEBNCA_Int", "HBWCA_Int",
      "HBWNCA_Int", "HBOCA_Int", "HBONCA_Int", "NHBOCA_Int", "NHBONCA_Int",
      "EBCA_Ext_FM", "EBCA_Ext_TO", "EBNCA_Ext", "HBWCA_Ext_FM", "HBWCA_Ext_TO",
      "HBWNCA_Ext", "OCA_Ext_FM", "OCA_Ext_TO", "ONCA_Ext", "HBEBCA_Int_T">>

\* NoRMS demand segments, the names of the matrices written out
norms_segments ==
    <<"HBEBCA_Int", "HBEBNCA_Int", "NHBEBCA_Int", "NHBEBNCA_Int", "HBWCA_Int",
      "HBWNCA_Int", "HBOCA_Int", "HBONCA_Int", "NHBOCA_Int", "NHBONCA_Int",
      "EBCA_Ext_FM", "EBCA_Ext_TO", "EBNCA_Ext", "HBWCA_Ext_FM", "HBWCA_Ext_TO",
      "HBWNCA_Ext", "OCA_Ext_FM", "OCA_Ext_TO", "ONCA_Ext">>

\* the segments whose iRSj probabilities are transposed
internal_to_home ==
    {"HBEBCA_Int_T", "HBEBNCA_Int_T", "NHBEBCA_Int_T", "NHBEBNCA_Int_T",
     "HBWCA_Int_T", "HBWNCA_Int_T", "HBOCA_Int_T", "HBONCA_Int_T",
     "NHBOCA_Int_T", "NHBONCA_Int_T"}

\* the segments fromto_2_from_by_averaging averages with their to-home variant
AveragedSegments ==
    {"HBEBCA_Int", "HBEBNCA_Int", "HBWCA_Int", "HBWNCA_Int", "HBOCA_Int", "HBONCA_Int"}

\* fromto_2_from_by_averaging: the 19 NoRMS matrices from the 24Hr matrices
fromto_2_from_by_averaging(matrices_dict) ==
    [seg \in Range(norms_segments) |->
        IF seg \in AveragedSegments
        THEN average_two_matrices(matrices_dict[seg],
                                  transpose_matrix(matrices_dict[seg \o "_T"]), NumZones)
        ELSE expand_matrix(matrices_dict[seg], NumZones)]

-----------------------------------------------------------------------------
(* run_edge_growth: the inputs of a run                                     *)

periods == <<"AM", "IP", "PM", "OP">>

\* the factoring method of every demand segment, in the order of the dictionary
segments_method ==
    <<<<"HBEBCA_Int", 1>>, <<"HBEBNCA_Int", 1>>, <<"NHBEBCA_Int", 2>>,
      <<"NHBEBNCA_Int", 2>>, <<"HBWCA_Int", 1>>, <<"HBWNCA_Int", 2>>,
      <<"HBOCA_Int", 1>>, <<"HBONCA_Int", 2>>, <<"NHBOCA_Int", 2>>,
      <<"NHBONCA_Int", 2>>, <<"HBEBCA_Int_T", 1>>, <<"HBEBNCA_Int_T", 1>>,
      <<"NHBEBCA_Int_T", 2>>, <<"NHBEBNCA_Int_T", 2>>, <<"HBWCA_Int_T", 1>>,
      <<"HBWNCA_Int_T", 2>>, <<"HBOCA_Int_T", 1>>, <<"HBONCA_Int_T", 2>>,
      <<"NHBOCA_Int_T", 2>>, <<"NHBONCA_Int_T", 2>>, <<"EBCA_Ext_FM", 1>>,
      <<"EBNCA_Ext", 2>>, <<"HBWCA_Ext_FM", 1>>, <<"HBWNCA_Ext", 2>>,
      <<"OCA_Ext_FM", 1>>, <<"ONCA_Ext", 2>>, <<"EBCA_Ext_TO", 1>>,
      <<"HBWCA_Ext_TO", 1>>, <<"OCA_Ext_TO", 1>>>>

\* segments_method[seg]
MethodOf(seg) ==
    LET i == CHOOSE i \in DOMAIN segments_method : segments_method[i][1] = seg
    IN segments_method[i][2]

\* the userclass a segment name stands for: business 1-3, commuting 4-6,
\* other 7-9
UserclassOfName(seg) ==
    IF seg \in {"HBEBCA_Int", "HBEBCA_Int_T", "NHBEBCA_Int", "NHBEBCA_Int_T",
                "EBCA_Ext_FM"} THEN 1
    ELSE IF seg \in {"HBEBNCA_Int", "HBEBNCA_Int_T", "NHBEBNCA_Int", "NHBEBNCA_Int_T",
                     "EBNCA_Ext"} THEN 2
    ELSE IF seg = "EBCA_Ext_TO" THEN 3
    ELSE IF seg \in {"HBWCA_Int", "HBWCA_Int_T", "HBWCA_Ext_FM"} THEN 4
    ELSE IF seg \in {"HBWNCA_Int", "HBWNCA_Int_T", "HBWNCA_Ext"} THEN 5
    ELSE IF seg = "HBWCA_Ext_TO" THEN 6
    ELSE IF seg \in {"HBOCA_Int", "HBOCA_Int_T", "NHBOCA_Int", "NHBOCA_Int_T",
                     "OCA_Ext_FM"} THEN 7
    ELSE IF seg \in {"HBONCA_Int", "HBONCA_Int_T", "NHBONCA_Int", "NHBONCA_Int_T",
                     "ONCA_Ext"} THEN 8
    ELSE 9

\* the segments_to_uc input: one row per demand segment
segments_to_uc ==
    [i \in DOMAIN segments_method |->
        [MX |-> segments_method[i][1], userclass |-> UserclassOfName(segments_method[i][1])]]

\* segments_to_uc["MX"].tolist()
demand_segment_list == Column(segments_to_uc, "MX")

\* the userclass of the first segments_to_uc row of the segment
UserclassOf(seg) ==
    SelectSeq(segments_to_uc, LAMBDA r : r.MX = seg)[1].userclass

\* norms_to_edge_stns: station 1 is A, station 2 is B
norms_to_edge_stns ==
    <<[stn_zone_id |-> 1, STATIONCODE |-> "A"], [stn_zone_id |-> 2, STATIONCODE |-> "B"]>>

\* a period's stn2stn_costs: 30 miles from station 1 to 2, 120 miles back
distMX ==
    <<[from_stn_zone_id |-> 1, to_stn_zone_id |-> 2, tran_distance |-> 30],
      [from_stn_zone_id |-> 2, to_stn_zone_id |-> 1, tran_distance |-> 120]>>

\* a period's iRSj probabilities, the same for every userclass: all of zone
\* pair (1,2) uses stations 1 to 2, all of (2,1) stations 2 to 1, half of
\* (1,1) has no station (station 0) and half uses 1 to 2, (2,2) has no row
iRSjProps ==
    Flatten([uc \in 1..9 |->
        <<[from_model_zone_id |-> 1, to_model_zone_id |-> 2, userclass |-> uc,
           from_stn_zone_id |-> 1, to_stn_zone_id |-> 2, proportion |-> PropDen],
          [from_model_zone_id |-> 2, to_model_zone_id |-> 1, userclass |-> uc,
           from_stn_zone_id |-> 2, to_stn_zone_id |-> 1, proportion |-> PropDen],
          [from_model_zone_id |-> 1, to_model_zone_id |-> 1, userclass |-> uc,
           from_stn_zone_id |-> 0, to_stn_zone_id |-> 0, proportion |-> PropDen \div 2],
          [from_model_zone_id |-> 1, to_model_zone_id |-> 1, userclass |-> uc,
           from_stn_zone_id |-> 1, to_stn_zone_id |-> 2,
           proportion |-> PropDen \div 2]>>])

edge_flows_file ==
    <<[FromCaseZoneID |-> "A", ToCaseZoneID |-> "B", FlowCatName |-> "Regional"],
      [FromCaseZoneID |-> "B", ToCaseZoneID |-> "A", FlowCatName |-> "To London"]>>

flow_cats ==
    <<[FlowCatName |-> "Regional", TAG_NonDist |-> "Outside South East"],
      [FlowCatName |-> "To London", TAG_NonDist |-> "Outside South East to/from London"]>>

\* ticket_type_splits, in quarters: no split for Leisure on the long London flow
ticket_type_splits ==
    <<[TAG_Flow |-> "Outside South East 25 to 100 miles", Purpose |-> "Business",
       F |-> 2, R |-> 1, S |-> 1],
      [TAG_Flow |-> "Outside South East 25 to 100 miles", Purpose |-> "Commuting",
       F |-> 1, R |-> 0, S |-> 3],
      [TAG_Flow |-> "Outside South East 25 to 100 miles", Purpose |-> "Leisure",
       F |-> 1, R |-> 3, S |-> 0],
      [TAG_Flow |-> "Outside South East to/from London 100 + miles",
       Purpose |-> "Business", F |-> 2, R |-> 1, S |-> 1],
      [TAG_Flow |-> "Outside South East to/from London 100 + miles",
       Purpose |-> "Commuting", F |-> 1, R |-> 0, S |-> 3]>>

DemandRow(fz, tz, demand) ==
    [from_model_zone_id |-> fz, to_model_zone_id |-> tz, Demand |-> demand]

\* a demand matrix file without demand
ZeroDemand == <<DemandRow(1, 2, 0)>>

\* the demand matrices of the unit a scenario looks at, Demand in 1/DemDen:
\* 100 trips with a factor; 2078, 1980 and 2077 trips with a factor and 21, 20
\* and 21 without when only A to B has factors; 5 trips without; 2.5 trips and
\* 2 trips of a zone pair without probabilities; 4 trips half of which has no
\* station, and 4 more; no demand
DemandChoices ==
    {<<DemandRow(1, 2, 200)>>,
     <<DemandRow(1, 2, 4156), DemandRow(2, 1, 42)>>,
     <<DemandRow(1, 2, 3960), DemandRow(2, 1, 40)>>,
     <<DemandRow(1, 2, 4154), DemandRow(2, 1, 42)>>,
     <<DemandRow(2, 1, 10)>>,
     <<DemandRow(1, 2, 5), DemandRow(2, 2, 4)>>,
     <<DemandRow(1, 1, 8), DemandRow(1, 2, 8)>>,
     ZeroDemand}

\* the units a scenario looks at: the first (method 1), a to-home one
\* (method 2), a commuting one (method 2) and the last (method 1)
HotUnits ==
    {<<"AM", "HBEBCA_Int">>, <<"IP", "NHBEBCA_Int_T">>, <<"PM", "HBWNCA_Int">>,
     <<"OP", "OCA_Ext_TO">>}

\* a row of the EDGE factor table as read, flagged 1 (line 1189)
EdgeRow(from, to, purpose, ticket, rate) ==
    [ZoneCodeFrom |-> from, ZoneCodeTo |-> to, purpose |-> purpose,
     TicketType |-> ticket, Demand_rate |-> rate, Flag |-> 1]

\* the factor tables: rate 1.0 for one ticket type of A to B; rate 1.0 for both
\* directions; rates above 1.0; no factor
EdgeTableChoices ==
    {<<EdgeRow("A", "B", "Business", "F", RateDen),
       EdgeRow("A", "B", "Commuting", "S", RateDen),
       EdgeRow("A", "B", "Leisure", "R", RateDen)>>,
     <<EdgeRow("A", "B", "Business", "F", RateDen),
       EdgeRow("B", "A", "Business", "F", RateDen),
       EdgeRow("A", "B", "Commuting", "S", RateDen),
       EdgeRow("B", "A", "Commuting", "S", RateDen),
       EdgeRow("A", "B", "Leisure", "R", RateDen),
       EdgeRow("B", "A", "Leisure", "F", RateDen)>>,
     <<EdgeRow("A", "B", "Business", "F", RateDen + 2),
       EdgeRow("B", "A", "Business", "S", RateDen + 5),
       EdgeRow("A", "B", "Commuting", "S", RateDen + 1),
       EdgeRow("A", "B", "Leisure", "R", RateDen + 2)>>,
     <<>>}

Scenarios ==
    {[hot |-> h, demand |-> d, table |-> t] :
        h \in HotUnits, d \in DemandChoices, t \in EdgeTableChoices}

\* the scenario of the runs with a missing file
DefaultScenario ==
    [hot |-> <<"AM", "HBEBCA_Int">>, demand |-> <<DemandRow(1, 2, 200)>>,
     table |-> <<EdgeRow("A", "B", "Business", "F", RateDen)>>]

CostsFile(p) == p \o "_stn2stn_costs.csv"

PropsFile(p) == p \o "_iRSj_probabilities.h5"

DemandFile(p, seg) == p \o "_" \o seg \o ".csv"

\* the files run_edge_growth checks
RequiredFiles ==
    {CostsFile(periods[p]) : p \in DOMAIN periods}
    \cup {PropsFile(periods[p]) : p \in DOMAIN periods}
    \cup {DemandFile(periods[p], demand_segment_list[g]) :
             p \in DOMAIN periods, g \in DOMAIN demand_segment_list}

\* what may be missing: nothing, one file, or a demand file and a later file
MissingChoices ==
    {{}} \cup {{f} : f \in RequiredFiles}
    \cup {{DemandFile("IP", "HBWCA_Int"), PropsFile("PM")}}

\* a mutant: no file is found
IsFileNever(file, absent) == FALSE

\* a mutant: every file is found
IsFileAlways(file, absent) == TRUE

\* os.path.isfile(file)
IsFile(file, absent) == file \notin absent

\* pd.read_csv of a period's segment demand matrix
ReadDemand(scen, p, seg) ==
    IF scen.hot = <<p, seg>> THEN scen.demand ELSE ZeroDemand

-----------------------------------------------------------------------------
(* run_edge_growth: the run                                                 *)

\* lines 1311-1337: userclass, the records with demand, stations, flows,
\* bands, purposes and the ticket split proportions
UnitSplit(demandMX, seg) ==
    LET uc == UserclassOf(seg)
        withUc == [i \in DOMAIN demandMX |-> demandMX[i] @@ [userclass |-> uc]]
        nonZero == SelectSeq(withUc, LAMBDA r : r.Demand > 0)
        stations == IF seg \in internal_to_home
                    THEN prepare_stn2stn_matrix_tohome(nonZero, iRSjProps, distMX,
                                                       norms_to_edge_stns)
                    ELSE prepare_stn2stn_matrix(nonZero, iRSjProps, distMX,
                                                norms_to_edge_stns)
    IN MergeTicketSplits(
           assign_purposes(add_distance_band_tag_flow(
               assign_edge_flow(edge_flows_file, flow_cats, stations))),
           ticket_type_splits)

\* the rename of line 1371: the period's demand column
PeriodMatrix(zoneMx, p) ==
    [i \in DOMAIN zoneMx |->
        ZonePair(zoneMx[i]) @@ ((p \o "_Demand") :> zoneMx[i].N_Demand)]

\* lines 1279-1285: the period's distance matrix is checked and read
ReadCosts ==
    /\ pc = "costs"
    /\ IsFile(CostsFile(periods[period]), missingFiles)
    /\ pc' = "props"
    /\ UNCHANGED <<edgeFactors0, edge_growth_factors, other_tickets_df, no_factors_df,
                   calls, lastMx, method, joined, runVars>>

\* lines 1286-1293: the period's probabilities are checked and read, the
\* period's dictionary is created
ReadProps ==
    /\ pc = "props"
    /\ IsFile(PropsFile(periods[period]), missingFiles)
    /\ pc' = "segment"
    /\ segment' = 1
    /\ factored_matrices' = (periods[period] :> <<>>) @@ factored_matrices
    /\ UNCHANGED <<edgeFactors0, edge_growth_factors, other_tickets_df, no_factors_df,
                   calls, lastMx, method, joined, scenario, missingFiles, period,
                   demand_total, unitSums, logging_info, gate, norms_matrices1,
                   written, exitStatus, notFound>>

\* lines 1298-1372: one pass of the segment loop, and the move to the next
\* segment, the next period or the end of both loops
ProcessSegment ==
    /\ pc = "segment"
    /\ LET p   == periods[period]
           seg == demand_segment_list[segment]
       IN /\ IsFile(DemandFile(p, seg), missingFiles)
          /\ LET demandMX == ReadDemand(scenario, p, seg)
                 tot_input_demand ==
                     RoundHalfEven(SumSkipNa(Column(demandMX, "Demand")), DemDen)
                 wide == apply_ticket_splits(UnitSplit(demandMX, seg))
                 out == create_factors_for_missing_moira_movements(
                            wide, edge_growth_factors, other_tickets_df, no_factors_df)
                 rows == JoinedByMethod(MethodOf(seg), wide, out.upd_edge_factors)
                 zoneMx == ZoneMatrix(GrownColumns(rows))
             IN /\ demand_total' = demand_total + tot_input_demand
                /\ edge_growth_factors' = out.upd_edge_factors
                /\ other_tickets_df' = out.other_tickets_df
                /\ no_factors_df' = out.no_factors_df
                /\ lastMx' = wide
                /\ method' = MethodOf(seg)
                /\ joined' = rows
                /\ factored_matrices' =
                       [factored_matrices EXCEPT ![p] = (seg :> PeriodMatrix(zoneMx, p)) @@ @]
                /\ unitSums' = (<<p, seg>> :>
                       [Demand   |-> SumSkipNa(Column(demandMX, "Demand")),
                        T_Demand |-> SumSkipNa(Column(zoneMx, "T_Demand")),
                        N_Demand |-> SumSkipNa(Column(zoneMx, "N_Demand"))]) @@ unitSums
    /\ calls' = calls + 1
    /\ IF segment < Len(demand_segment_list)
       THEN segment' = segment + 1 /\ UNCHANGED <<pc, period>>
       ELSE IF period < Len(periods)
       THEN pc' = "costs" /\ period' = period + 1 /\ segment' = 0
       ELSE pc' = "gate" /\ UNCHANGED <<period, segment>>
    /\ UNCHANGED <<edgeFactors0, scenario, missingFiles, logging_info, gate,
                   norms_matrices1, written, exitStatus, notFound>>

\* check_file_exist when the file is not there: sys.exit() without an
\* argument, which ends the process with status 0
FileNotFound ==
    /\ LET file == IF pc = "costs" THEN CostsFile(periods[period])
                   ELSE IF pc = "props" THEN PropsFile(periods[period])
                   ELSE DemandFile(periods[period], demand_segment_list[segment])
       IN /\ pc \in {"costs", "props", "segment"}
          /\ ~IsFile(file, missingFiles)
          /\ notFound' = file
    /\ pc' = "FileNotFound"
    /\ exitStatus' = 0
    /\ UNCHANGED <<edgeFactors0, edge_growth_factors, other_tickets_df, no_factors_df,
                   calls, lastMx, method, joined, scenario, missingFiles, period,
                   segment, demand_total, factored_matrices, unitSums, logging_info,
                   gate, norms_matrices1, written>>

\* lines 1374-1399: the logging figures and the threshold test; above the
\* threshold sys.exit() without an argument ends the process with status 0
QualityGate ==
    /\ pc = "gate"
    /\ LET info == prepare_logging_info(other_tickets_df, no_factors_df, demand_total)
       IN /\ logging_info' = [f \in {"no_factor_demand_prop", "tickets_demand_prop",
                                       "tickets_internal_prop", "factors_internal_prop"}
                                    |-> info[f]]
          /\ other_tickets_df' = info.other_tickets_df
          /\ no_factors_df' = info.no_factors_df
          /\ IF ExceedsThreshold(info.no_factor_demand_prop)
             THEN pc' = "Aborted" /\ gate' = "Aborted" /\ exitStatus' = 0
             ELSE pc' = "combine" /\ gate' = "Completed" /\ UNCHANGED exitStatus
    /\ UNCHANGED <<edgeFactors0, edge_growth_factors, calls, lastMx, method, joined,
                   scenario, missingFiles, period, segment, demand_total,
                   factored_matrices, unitSums, norms_matrices1, written, notFound>>

\* lines 1424-1432: the 24Hr matrix of every segment of segments_method
factored_24hr_matrices(matrices) ==
    [seg \in {segments_method[i][1] : i \in DOMAIN segments_method} |->
        sum_periods_demand(matrices["AM"][seg], matrices["IP"][seg],
                           matrices["PM"][seg], matrices["OP"][seg])]

\* lines 1424-1435: the periods summed and the NoRMS matrices built
Combine ==
    /\ pc = "combine"
    /\ norms_matrices1' =
           fromto_2_from_by_averaging(factored_24hr_matrices(factored_matrices))
    /\ pc' = "write"
    /\ UNCHANGED <<edgeFactors0, edge_growth_factors, other_tickets_df, no_factors_df,
                   calls, lastMx, method, joined, scenario, missingFiles, period,
                   segment, demand_total, factored_matrices, unitSums, logging_info,
                   gate, written, exitStatus, notFound>>

\* lines 1438-1442: one to_csv of the loop over norms_segments; after the last
\* one the function returns
WriteSegment ==
    /\ pc = "write"
    /\ LET seg == norms_segments[Len(written) + 1]
       IN /\ seg \in DOMAIN norms_matrices1
          /\ written' = Append(written, seg)
    /\ pc' = IF Len(written) + 1 = Len(norms_segments) THEN "Completed" ELSE "write"
    /\ UNCHANGED <<edgeFactors0, edge_growth_factors, other_tickets_df, no_factors_df,
                   calls, lastMx, method, joined, scenario, missingFiles, period,
                   segment, demand_total, factored_matrices, unitSums, logging_info,
                   gate, norms_matrices1, exitStatus, notFound>>

\* the state at the first check_file_exist of the period loop (line 1283)
Init ==
    /\ pc = "costs"
    /\ scenario \in Scenarios \cup {DefaultScenario}
    /\ missingFiles \in MissingChoices
    /\ missingFiles # {} => scenario = DefaultScenario
    /\ edgeFactors0 = scenario.table
    /\ edge_growth_factors = edgeFactors0
    /\ other_tickets_df = <<>>
    /\ no_factors_df = <<>>
    /\ calls = 0
    /\ lastMx = <<>>
    /\ method = 0
    /\ joined = <<>>
    /\ period = 1
    /\ segment = 0
    /\ demand_total = 0
    /\ factored_matrices = <<>>
    /\ unitSums = <<>>
    /\ logging_info = <<>>
    /\ gate = "pending"
    /\ norms_matrices1 = <<>>
    /\ written = <<>>
    /\ exitStatus = NaN
    /\ notFound = NaS

Next ==
    \/ ReadCosts
    \/ ReadProps
    \/ ProcessSegment
    \/ FileNotFound
    \/ QualityGate
    \/ Combine
    \/ WriteSegment

Spec == Init /\ [][Next]_vars

-----------------------------------------------------------------------------
(* Properties of a run of run_edge_growth                                   *)

\* the unfactored demand the gate sums, in 1/TDen
UnfactoredTotal == SumSkipNa(Column(no_factors_df, "T_Demand"))

AllUnits ==
    {<<periods[p], demand_segment_list[g]>> :
        p \in DOMAIN periods, g \in DOMAIN demand_segment_list}

\* C1 as claimed: once the gate has been evaluated, the run is Aborted if and
\* only if unfactored demand / total input demand is strictly above 1%
C1_GateIffAboveOnePercent ==
    gate # "pending" =>
        (gate = "Aborted" <=> 100 * UnfactoredTotal > TDen * demand_total)

\* C2: a matrix is written only after all 4 periods x 29 segments were
\* processed and the gate test found the proportion not above the threshold;
\* an Aborted run has written nothing
C2_NoOutputBeforeGate ==
    /\ written # <<>> =>
          /\ calls = Len(periods) * Len(demand_segment_list)
          /\ DOMAIN unitSums = AllUnits
          /\ gate = "Completed"
          /\ logging_info.no_factor_demand_prop # Inf
          /\ logging_info.no_factor_demand_prop <= 1000
    /\ gate = "Aborted" => written = <<>>

\* some demand is unfactored, the gate passed, the first matrix is written
C2_Witness ==
    /\ Len(written) = 1
    /\ gate = "Completed"
    /\ UnfactoredTotal > 0

\* C3 as claimed: a run the gate aborted ended with a non-zero exit status
C3_GateFailureNonZeroExit ==
    pc = "Aborted" => (exitStatus # NaN /\ exitStatus # 0)

\* the files in the order run_edge_growth checks them
CheckOrder ==
    Flatten([p \in DOMAIN periods |->
        <<CostsFile(periods[p]), PropsFile(periods[p])>>
        \o [g \in DOMAIN demand_segment_list |->
               DemandFile(periods[p], demand_segment_list[g])]])

\* the place in CheckOrder of the check the run is at
CheckIndex ==
    (period - 1) * (2 + Len(demand_segment_list))
    + (IF pc = "costs" THEN 1 ELSE IF pc = "props" THEN 2 ELSE 2 + segment)

\* C4: with a required file missing the run never gets past the check of that
\* file: it stops at the check of that file or of an earlier missing one,
\* without reaching the gate, and nothing is ever written
C4_MissingFileAborts ==
    \A n \in DOMAIN CheckOrder :
        CheckOrder[n] \in missingFiles =>
            /\ written = <<>>
            /\ pc \in {"costs", "props", "segment", "FileNotFound"}
            /\ pc # "FileNotFound" => CheckIndex <= n
            /\ pc = "FileNotFound" =>
                  \E m \in 1..n : CheckOrder[m] = notFound /\ notFound \in missingFiles

\* a run stopped at a missing demand file after units were processed
C4_Witness ==
    /\ pc = "FileNotFound"
    /\ calls > 0
    /\ notFound \in missingFiles
    /\ Cardinality(missingFiles) = 2
    /\ written = <<>>

\* the 19 final output segments
FinalSegments ==
    {"HBEBCA_Int", "HBEBNCA_Int", "NHBEBCA_Int", "NHBEBNCA_Int", "HBWCA_Int",
     "HBWNCA_Int", "HBOCA_Int", "HBONCA_Int", "NHBOCA_Int", "NHBONCA_Int",
     "EBCA_Ext_FM", "EBCA_Ext_TO", "EBNCA_Ext", "HBWCA_Ext_FM", "HBWCA_Ext_TO",
     "HBWNCA_Ext", "OCA_Ext_FM", "OCA_Ext_TO", "ONCA_Ext"}

\* C5: a Completed run has written one matrix for each of the 19 final
\* segments, each once, and none for another name; until then it has written
\* final segments only, none twice
C5_ExactlyNineteenOutputs ==
    /\ Range(written) \subseteq FinalSegments
    /\ \A i, j \in DOMAIN written : written[i] = written[j] => i = j
    /\ pc = "Completed" => (Range(written) = FinalSegments /\ Len(written) = 19)

\* a Completed run that had demand to factor
C5_Witness ==
    /\ pc = "Completed"
    /\ demand_total > 0
    /\ Len(written) = 19

AllRatesOne(edgeFactors) ==
    \A i \in DOMAIN edgeFactors : edgeFactors[i].Demand_rate = RateDen

\* no demand of the unit is lost before the growth step: the station records
\* hold all of the input demand and each has ticket shares that sum to 1
NothingLost(unit) ==
    LET demandMX == ReadDemand(scenario, unit[1], unit[2])
        split == UnitSplit(demandMX, unit[2])
    IN /\ SumSkipNa(Column(split, "Demand")) = PropDen * SumSkipNa(Column(demandMX, "Demand"))
       /\ \A i \in DOMAIN split :
             /\ split[i].F # NaN /\ split[i].R # NaN /\ split[i].S # NaN
             /\ split[i].F + split[i].R + split[i].S = ShareDen

\* C6 as claimed: with every growth rate 1.0, the summed output demand of every
\* processed unit equals the summed demand of its input matrix
C6_ConservationOfInput ==
    AllRatesOne(edgeFactors0) =>
        \A u \in DOMAIN unitSums :
            unitSums[u].N_Demand * DemDen = unitSums[u].Demand * NDen

\* C6 amended: with every growth rate 1.0, the summed output demand of every
\* processed unit equals the summed ticket-level demand T_Demand of the unit,
\* and equals the summed input demand when no demand was lost before the
\* growth step
C6_ConservationOfTicketDemand ==
    AllRatesOne(edgeFactors0) =>
        \A u \in DOMAIN unitSums :
            /\ unitSums[u].N_Demand * TDen = unitSums[u].T_Demand * NDen
            /\ NothingLost(u) =>
                  unitSums[u].N_Demand * DemDen = unitSums[u].Demand * NDen

\* rates all 1.0 and a unit part of whose demand did not reach the growth step
C6_Witness ==
    /\ AllRatesOne(edgeFactors0)
    /\ edgeFactors0 # <<>>
    /\ \E u \in DOMAIN unitSums :
          /\ unitSums[u].N_Demand > 0
          /\ unitSums[u].N_Demand * TDen = unitSums[u].T_Demand * NDen
          /\ unitSums[u].N_Demand * DemDen < unitSums[u].Demand * NDen

-----------------------------------------------------------------------------
(* The Factor Resolver driven on its own: a factor table as read, then any  *)
(* sequence of calls, each on the demand table of one period and segment    *)

\* bounds of the resolver's inputs
MaxFactorRows == 2
MaxCalls == 2

FactorRow(from, to, purpose, ticket, rate) ==
    [ZoneCodeFrom |-> from, ZoneCodeTo |-> to, purpose |-> purpose,
     TicketType |-> ticket, Demand_rate |-> rate, Flag |-> 1]

\* rows of the growth-factor file; a rate of 10 is 1.0, NaN an empty rate
FactorRowChoices ==
    {FactorRow("A", "B", "Business", "F", 10),
     FactorRow("A", "B", "Business", "F", NaN),
     FactorRow("A", "B", "Business", "S", 12),
     FactorRow("A", "B", "Business", "S", 10),
     FactorRow("A", "B", "Business", "R", 12)}

RECURSIVE SeqsUpTo(_, _)
SeqsUpTo(S, n) ==
    IF n = 0 THEN {<<>>}
    ELSE LET shorter == SeqsUpTo(S, n - 1)
         IN shorter \cup {Append(t, x) : t \in shorter, x \in S}

FactorTables == SeqsUpTo(FactorRowChoices, MaxFactorRows)

\* demand tables as apply_ticket_splits returns them (F, R, S in 1/TDen)
W1 == WideRow(1, 2, 1, 2, "A", "B", 1, "Business", 8, 4, 4)
W2 == WideRow(2, 2, 1, 2, "A", "B", 1, "Business", 4, 2, 2)
W3 == WideRow(1, 2, 1, 2, "A", "B", 7, "Leisure", 8, 4, 4)

MxChoices == {<<W1>>, <<W3>>, <<W1, W2>>, <<W2, W1>>, <<W1, W3>>}

InitResolver ==
    /\ pc = "resolver"
    /\ edgeFactors0 \in FactorTables
    /\ edge_growth_factors = edgeFactors0
    /\ other_tickets_df = <<>>
    /\ no_factors_df = <<>>
    /\ calls = 0
    /\ lastMx = <<>>
    /\ method = 0
    /\ joined = <<>>
    /\ scenario = <<>>
    /\ missingFiles = {}
    /\ period = 0
    /\ segment = 0
    /\ demand_total = 0
    /\ factored_matrices = <<>>
    /\ unitSums = <<>>
    /\ logging_info = <<>>
    /\ gate = "pending"
    /\ norms_matrices1 = <<>>
    /\ written = <<>>
    /\ exitStatus = NaN
    /\ notFound = NaS

\* one pass of lines 1341-1347: the call and the rebinding of the three tables
ResolverCall(mx) ==
    /\ pc = "resolver"
    /\ calls < MaxCalls
    /\ LET out == create_factors_for_missing_moira_movements(
                      mx, edge_growth_factors, other_tickets_df, no_factors_df)
       IN /\ edge_growth_factors' = out.upd_edge_factors
          /\ other_tickets_df' = out.other_tickets_df
          /\ no_factors_df' = out.no_factors_df
    /\ calls' = calls + 1
    /\ lastMx' = mx
    /\ UNCHANGED <<pc, edgeFactors0, method, joined, runVars>>

NextResolver == \E mx \in MxChoices : ResolverCall(mx)

SpecResolver == InitResolver /\ [][NextResolver]_vars

KeysUnique(T) == \A i, j \in DOMAIN T : SameKey(T[i], T[j]) => i = j

Borrowed(T) == {T[i] : i \in {j \in DOMAIN T : T[j].Flag = 0}}

SeqPermutations(s) ==
    {[i \in DOMAIN s |-> s[p[i]]] : p \in Permutations(DOMAIN s)}

\* C7: a key with a directly supplied factor (Flag = 1, with a rate) keeps that
\* factor with its rate after any sequence of resolver calls, and the table
\* holds no borrowed (Flag = 0) row for that key
C7_AuthoritativePrecedence ==
    pc = "resolver" =>
        \A i \in DOMAIN edgeFactors0 :
            edgeFactors0[i].Demand_rate # NaN =>
                /\ edgeFactors0[i] \in Range(edge_growth_factors)
                /\ \A j \in DOMAIN edge_growth_factors :
                       SameKey(edge_growth_factors[j], edgeFactors0[i])
                           => edge_growth_factors[j].Flag = 1

\* a call was given a record whose key has a direct factor, and borrowed rows
\* for other keys of the same movement are in the table
C7_Witness ==
    /\ pc = "resolver"
    /\ calls >= 1
    /\ Borrowed(edge_growth_factors) # {}
    /\ \E i \in DOMAIN edgeFactors0 : \E m \in Range(Melt(lastMx)) :
           edgeFactors0[i].Demand_rate # NaN /\ SameKey(m, edgeFactors0[i])

\* C8: from a table with unique keys the augmented table has at most one row
\* per key, every ticket record of a call joins to at most one row of it, and
\* a missing key for which another ticket type has a factor has exactly one
\* borrowed row
C8_OneFactorPerKey ==
    (pc = "resolver" /\ KeysUnique(edgeFactors0)) =>
        /\ KeysUnique(edge_growth_factors)
        /\ \A m \in Range(Melt(lastMx)) :
              LET hits == {j \in DOMAIN edge_growth_factors :
                              SameKey(m, edge_growth_factors[j])}
                  direct == \E f \in Range(DropNaRates(edgeFactors0)) : SameKey(m, f)
                  other  == \E f \in Range(DropNaRates(edgeFactors0)) : SameMovement(m, f)
              IN /\ Cardinality(hits) <= 1
                 /\ (~direct /\ other /\ ~KeyCodesNa(m)) =>
                        /\ Cardinality(hits) = 1
                        /\ \A j \in hits : edge_growth_factors[j].Flag = 0

\* two calls on a table with unique keys, the last with two records of the
\* same missing key for which two other ticket types have factors
C8_Witness ==
    /\ pc = "resolver"
    /\ calls = 2
    /\ KeysUnique(edgeFactors0)
    /\ Len(lastMx) = 2
    /\ \E f \in Borrowed(edge_growth_factors) :
           /\ Cardinality({m \in Range(Melt(lastMx)) : SameKey(m, f)}) = 2
           /\ Cardinality({i \in DOMAIN edgeFactors0 :
                  /\ edgeFactors0[i].Demand_rate # NaN
                  /\ SameMovement(edgeFactors0[i], f)}) = 2

\* C9 as claimed: after the first call the borrowed factors are the same for
\* every ordering of the rows of the factor table and of the demand records
C9_FallbackDeterminism ==
    (pc = "resolver" /\ calls = 1 /\ KeysUnique(edgeFactors0)) =>
        \A P \in SeqPermutations(edgeFactors0) : \A Q \in SeqPermutations(lastMx) :
            Borrowed(create_factors_for_missing_moira_movements(
                         Q, P, <<>>, <<>>).upd_edge_factors)
                = Borrowed(edge_growth_factors)


-----------------------------------------------------------------------------
(* The factoring of period/segment units driven on its own: lines 1340-1354 *)
(* (the resolver call, then the method the segment selects)                 *)

\* factor rows in both directions of a movement; a rate of 12 is 1.2
GrowthRowChoices ==
    {FactorRow("A", "B", "Business", "F", 12),
     FactorRow("B", "A", "Business", "F", 15),
     FactorRow("A", "B", "Business", "S", 10),
     FactorRow("B", "A", "Business", "R", 12)}

GrowthTables == SeqsUpTo(GrowthRowChoices, MaxFactorRows)

W4 == WideRow(2, 1, 2, 1, "B", "A", 1, "Business", 8, 4, 4)

GrowthMxChoices == {<<W1>>, <<W4>>, <<W1, W4>>}

InitGrowth ==
    /\ pc = "growth"
    /\ edgeFactors0 \in GrowthTables
    /\ edge_growth_factors = edgeFactors0
    /\ other_tickets_df = <<>>
    /\ no_factors_df = <<>>
    /\ calls = 0
    /\ lastMx = <<>>
    /\ method = 0
    /\ joined = <<>>
    /\ scenario = <<>>
    /\ missingFiles = {}
    /\ period = 0
    /\ segment = 0
    /\ demand_total = 0
    /\ factored_matrices = <<>>
    /\ unitSums = <<>>
    /\ logging_info = <<>>
    /\ gate = "pending"
    /\ norms_matrices1 = <<>>
    /\ written = <<>>
    /\ exitStatus = NaN
    /\ notFound = NaS

\* the factoring of one unit: the resolver call with the rebinding of the
\* three tables, then the join of the method of the segment
FactorUnit(mx, m) ==
    /\ pc = "growth"
    /\ calls < MaxCalls
    /\ LET out == create_factors_for_missing_moira_movements(
                      mx, edge_growth_factors, other_tickets_df, no_factors_df)
       IN /\ edge_growth_factors' = out.upd_edge_factors
          /\ other_tickets_df' = out.other_tickets_df
          /\ no_factors_df' = out.no_factors_df
          /\ joined' = JoinedByMethod(m, mx, out.upd_edge_factors)
    /\ calls' = calls + 1
    /\ lastMx' = mx
    /\ method' = m
    /\ UNCHANGED <<pc, edgeFactors0, runVars>>

NextGrowth == \E mx \in GrowthMxChoices : \E m \in {1, 2} : FactorUnit(mx, m)

SpecGrowth == InitGrowth /\ [][NextGrowth]_vars

\* C10 as claimed: under method 2 the applied rate is the mean of the forward
\* and the reverse rate with a direction without a factor counted as 1.0, and
\* N_Demand is T_Demand times that rate
C10_MissingDirectionCountsAsOne ==
    (pc = "growth" /\ method = 2) =>
        \A i \in DOMAIN joined :
            /\ joined[i].Applied_rate =
                   (IF joined[i].Dir1_Growth = NaN THEN RateDen ELSE joined[i].Dir1_Growth)
                 + (IF joined[i].Dir2_Growth = NaN THEN RateDen ELSE joined[i].Dir2_Growth)
            /\ joined[i].N_Demand = joined[i].T_Demand * joined[i].Applied_rate

\* the rows of a factor table with the key of ticket record m
FactorsOfKey(T, m) == {j \in DOMAIN T : SameKey(m, T[j])}

\* C11: under method 1, with a factor table keyed uniquely, the output has one
\* record per input ticket record, in the same order and with the same
\* T_Demand, and its N_Demand is T_Demand times one rate: the rate of the one
\* factor row with its (ZoneCodeFrom, ZoneCodeTo, TicketType, purpose), or 1.0
\* when the table has no such row
C11_MethodOneOneRecordOneRate ==
    (pc = "growth" /\ method = 1 /\ KeysUnique(edgeFactors0)) =>
        LET input == Melt(lastMx)
            output == GrownColumns(joined)
        IN /\ Len(output) = Len(input)
           /\ \A i \in DOMAIN output :
                 LET hits == FactorsOfKey(edge_growth_factors, input[i])
                 IN /\ [f \in DOMAIN input[i] |-> output[i][f]] = input[i]
                    /\ Cardinality(hits) <= 1
                    /\ hits = {} =>
                          output[i].N_Demand = input[i].T_Demand * 2 * RateDen
                    /\ \A j \in hits :
                          output[i].N_Demand =
                              input[i].T_Demand * 2 * edge_growth_factors[j].Demand_rate

\* method 1 on records of both directions: one grows by a rate other than 1.0,
\* another has no factor at all
C11_Witness ==
    /\ pc = "growth"
    /\ method = 1
    /\ KeysUnique(edgeFactors0)
    /\ Len(joined) = 6
    /\ \E i \in DOMAIN joined :
          /\ FactorsOfKey(edge_growth_factors, joined[i]) = {}
          /\ joined[i].T_Demand > 0
    /\ \E i \in DOMAIN joined : \E j \in FactorsOfKey(edge_growth_factors, joined[i]) :
          edge_growth_factors[j].Demand_rate > RateDen

-----------------------------------------------------------------------------
(* The Period & Segment Combiner driven on its own: run_edge_growth from    *)
(* the end of the loops, the gate passed, with period matrices as lines     *)
(* 1357-1372 leave them (one row per zone pair, in ascending order)         *)

\* a row of a factored period matrix
PeriodRow(p, fz, tz, demand) ==
    [from_model_zone_id |-> fz, to_model_zone_id |-> tz] @@ ((p \o "_Demand") :> demand)

AllSegments == {segments_method[i][1] : i \in DOMAIN segments_method}

\* period matrices of a home-based segment, of its to-home variant, of the
\* to-home variant of a non-home-based segment and of an external segment; all
\* other matrices are empty
CombinerChoices ==
    {[p \in Range(periods) |-> [seg \in AllSegments |->
        IF p = "AM" /\ seg = "HBEBCA_Int" THEN am
        ELSE IF p = "IP" /\ seg = "HBEBCA_Int" THEN ip
        ELSE IF p = "AM" /\ seg = "HBEBCA_Int_T" THEN amT
        ELSE IF p = "OP" /\ seg = "NHBEBCA_Int_T" THEN opT
        ELSE IF p = "PM" /\ seg = "ONCA_Ext" THEN pm
        ELSE <<>>]] :
        am  \in {<<>>, <<PeriodRow("AM", 1, 2, 100)>>,
                 <<PeriodRow("AM", 1, 2, 70), PeriodRow("AM", 2, 1, 8)>>,
                 <<PeriodRow("AM", 1, 1, 6), PeriodRow("AM", 2, 2, 4)>>},
        ip  \in {<<>>, <<PeriodRow("IP", 1, 2, 30), PeriodRow("IP", 2, 2, 2)>>},
        amT \in {<<>>, <<PeriodRow("AM", 2, 1, 60)>>,
                 <<PeriodRow("AM", 1, 2, 10), PeriodRow("AM", 2, 2, 20)>>},
        opT \in {<<>>, <<PeriodRow("OP", 2, 1, 50)>>},
        pm  \in {<<>>, <<PeriodRow("PM", 2, 1, 12)>>}}

InitCombiner ==
    /\ pc = "combine"
    /\ factored_matrices \in CombinerChoices
    /\ gate = "Completed"
    /\ period = Len(periods)
    /\ segment = Len(demand_segment_list)
    /\ calls = Len(periods) * Len(demand_segment_list)
    /\ edgeFactors0 = <<>>
    /\ edge_growth_factors = <<>>
    /\ other_tickets_df = <<>>
    /\ no_factors_df = <<>>
    /\ lastMx = <<>>
    /\ method = 0
    /\ joined = <<>>
    /\ scenario = <<>>
    /\ missingFiles = {}
    /\ demand_total = 0
    /\ unitSums = <<>>
    /\ logging_info = <<>>
    /\ norms_matrices1 = <<>>
    /\ written = <<>>
    /\ exitStatus = NaN
    /\ notFound = NaS

NextCombiner == Combine \/ WriteSegment

SpecCombiner == InitCombiner /\ [][NextCombiner]_vars

\* the demand a matrix holds for zone pair (i, j): 0 when it has no such row
Cell(mx, i, j) ==
    LET rows == SelectSeq(mx, LAMBDA r : r.from_model_zone_id = i /\ r.to_model_zone_id = j)
    IN SumSkipNa(Column(rows, "Demand"))

\* the number of rows a matrix has for zone pair (i, j)
CellRows(mx, i, j) ==
    Len(SelectSeq(mx, LAMBDA r : r.from_model_zone_id = i /\ r.to_model_zone_id = j))

\* the 24Hr matrices of the state
Daily == factored_24hr_matrices(factored_matrices)

\* C12: once the NoRMS matrices are built, every zone pair (i, j) of an
\* averaged segment A holds (A[i,j] + A_T[j,i]) / 2 of the 24Hr matrices, a
\* cell absent from one of them counting as 0 (the mean is held in halves)
C12_CombinationCorrectness ==
    pc \in {"write", "Completed"} =>
        \A seg \in AveragedSegments : \A i, j \in 1..NumZones :
            /\ CellRows(norms_matrices1[seg], i, j) = 1
            /\ Cell(norms_matrices1[seg], i, j) =
                   Cell(Daily[seg], i, j) + Cell(Daily[seg \o "_T"], j, i)

\* A = 100 at (1,2) and A_T = 60 at (2,1) give 80 at (1,2), held as 160 halves
C12_Witness ==
    /\ pc = "write"
    /\ Cell(Daily["HBEBCA_Int"], 1, 2) = 100
    /\ Cell(Daily["HBEBCA_Int_T"], 2, 1) = 60
    /\ Cell(norms_matrices1["HBEBCA_Int"], 1, 2) = 160
    /\ Cell(norms_matrices1["HBEBCA_Int"], 2, 1) = 0

\* C13: every NoRMS matrix, expanded or averaged, has exactly N*N rows, one
\* for each zone pair of 1..N x 1..N, with demand 0 for every pair its source
\* matrices do not hold; an expanded matrix keeps the demand of its source
C13_FullGridExpansion ==
    pc \in {"write", "Completed"} =>
        \A seg \in DOMAIN norms_matrices1 :
            LET out == norms_matrices1[seg]
                averaged == seg \in AveragedSegments
            IN /\ Len(out) = NumZones * NumZones
               /\ \A n \in DOMAIN out :
                     /\ out[n].from_model_zone_id \in 1..NumZones
                     /\ out[n].to_model_zone_id \in 1..NumZones
               /\ \A i, j \in 1..NumZones :
                     /\ CellRows(out, i, j) = 1
                     /\ (/\ CellRows(Daily[seg], i, j) = 0
                         /\ averaged => CellRows(Daily[seg \o "_T"], j, i) = 0)
                            => Cell(out, i, j) = 0
                     /\ ~averaged => Cell(out, i, j) = Cell(Daily[seg], i, j)

\* an expanded matrix whose source has one row and an averaged matrix whose
\* sources have rows, both on the full grid
C13_Witness ==
    /\ pc = "write"
    /\ Len(Daily["ONCA_Ext"]) = 1
    /\ Len(norms_matrices1["ONCA_Ext"]) = NumZones * NumZones
    /\ Len(Daily["HBEBCA_Int"]) = 2
    /\ Len(Daily["HBEBCA_Int_T"]) = 1
    /\ Len(norms_matrices1["HBEBCA_Int"]) = NumZones * NumZones

\* the demand of a NoRMS matrix cell in halves: an averaged matrix holds
\* halves, an expanded one whole units
InHalves(seg, demand) == IF seg \in AveragedSegments THEN demand ELSE 2 * demand

\* C14 as claimed: every output segment X whose X_T is in internal_to_home
\* holds, at every zone pair (i, j), the mean of X[i,j] and X_T[j,i] of the
\* 24Hr matrices, so that no to-home demand is left out
C14_EveryToHomePairAveraged ==
    pc \in {"write", "Completed"} =>
        \A seg \in DOMAIN norms_matrices1 :
            (seg \o "_T") \in internal_to_home =>
                \A i, j \in 1..NumZones :
                    InHalves(seg, Cell(norms_matrices1[seg], i, j)) =
                        Cell(Daily[seg], i, j) + Cell(Daily[seg \o "_T"], j, i)

\* the rows a period matrix has for zone pair (i, j)
PeriodRows(mx, i, j) ==
    SelectSeq(mx, LAMBDA r : r.from_model_zone_id = i /\ r.to_model_zone_id = j)

\* the demand period p holds for zone pair (i, j) of a segment: 0 when absent
PeriodCell(matrices, p, seg, i, j) ==
    SumSkipNa(Column(PeriodRows(matrices[p][seg], i, j), p \o "_Demand"))

\* C15: the 24Hr matrix of every segment has exactly one row for a zone pair
\* that at least one of its four period matrices holds, with demand
\* AM + IP + PM + OP where a period without the pair counts as 0, and no row
\* for a pair none of them holds
C15_DailyIsSumOfPeriods ==
    pc \in {"write", "Completed"} =>
        \A seg \in AllSegments :
            /\ \A n \in DOMAIN Daily[seg] :
                  \E p \in Range(periods) :
                      PeriodRows(factored_matrices[p][seg],
                                 Daily[seg][n].from_model_zone_id,
                                 Daily[seg][n].to_model_zone_id) # <<>>
            /\ \A i, j \in 1..NumZones :
                  LET present == \E p \in Range(periods) :
                                     PeriodRows(factored_matrices[p][seg], i, j) # <<>>
                  IN /\ CellRows(Daily[seg], i, j) = IF present THEN 1 ELSE 0
                     /\ Cell(Daily[seg], i, j) =
                            PeriodCell(factored_matrices, "AM", seg, i, j)
                          + PeriodCell(factored_matrices, "IP", seg, i, j)
                          + PeriodCell(factored_matrices, "PM", seg, i, j)
                          + PeriodCell(factored_matrices, "OP", seg, i, j)

\* a segment with a zone pair in two periods and another pair in one period
C15_Witness ==
    /\ pc = "write"
    /\ PeriodCell(factored_matrices, "AM", "HBEBCA_Int", 1, 2) = 100
    /\ PeriodCell(factored_matrices, "IP", "HBEBCA_Int", 1, 2) = 30
    /\ Cell(Daily["HBEBCA_Int"], 1, 2) = 130
    /\ PeriodRows(factored_matrices["AM"]["HBEBCA_Int"], 2, 2) = <<>>
    /\ Cell(Daily["HBEBCA_Int"], 2, 2) = 2
    /\ Len(Daily["HBEBCA_Int"]) = 2

\* the demand of the station movements of a unit for which the ticket split
\* table has no row, in 1/TDen
NoSplitDemand(unit) ==
    LET split == UnitSplit(ReadDemand(scenario, unit[1], unit[2]), unit[2])
        nosplit == SelectSeq(split, LAMBDA r : r.F = NaN /\ r.R = NaN /\ r.S = NaN)
    IN ShareDen * SumSkipNa(Column(nosplit, "Demand"))

\* C16 as claimed: the demand of the movements without a ticket split of the
\* units processed so far is part of the total of the unfactored audit
C16_NoSplitDemandIsAudited ==
    (pc # "FileNotFound" /\ scenario.hot \in DOMAIN unitSums) =>
        UnfactoredTotal >= NoSplitDemand(scenario.hot)

SubstitutionTotal == SumSkipNa(Column(other_tickets_df, "T_Demand"))

\* the ticket-level demand of the records of mx whose factor in table T is a
\* borrowed one (Flag = 0), each record once
BorrowedDemand(mx, T) ==
    LET melted == Melt(mx)
        borrowers == SelectSeq(melted, LAMBDA m :
                        \E j \in DOMAIN T : SameKey(m, T[j]) /\ T[j].Flag = 0)
    IN SumSkipNa(Column(borrowers, "T_Demand"))

\* C17 as claimed, for a loop in which one unit carries demand: the total of
\* the substitution audit is the ticket-level demand of the records whose
\* factor was borrowed from another ticket type, each counted once
C17_SubstitutionAuditCountsOnce ==
    (pc = "resolver" /\ calls = 1 /\ KeysUnique(edgeFactors0)) =>
        SubstitutionTotal = BorrowedDemand(lastMx, edge_growth_factors)

\* the table holds no factor of any ticket type for the movement and purpose
\* of record m (a row with an empty rate is no factor)
NoFactorAtAll(m, T) ==
    \A j \in DOMAIN T : SameMovement(m, T[j]) => T[j].Demand_rate = NaN

\* the ticket records of mx without any factor in T on movement from -> to
UnfactoredRecords(mx, T, from, to) ==
    SelectSeq(Melt(mx), LAMBDA m :
        m.ZoneCodeFrom = from /\ m.ZoneCodeTo = to /\ NoFactorAtAll(m, T))

InternalZoneLimit == 1158

\* the records of mx on the station movement of audit row r are all between
\* two internal zones
InternalMovement(mx, r) ==
    \A m \in Range(Melt(mx)) :
        (m.ZoneCodeFrom = r.ZoneCodeFrom /\ m.ZoneCodeTo = r.ZoneCodeTo) =>
            /\ m.from_model_zone_id < InternalZoneLimit
            /\ m.to_model_zone_id < InternalZoneLimit

\* C19 as claimed: after a call, every row of the substitution audit and of the
\* unfactored audit is flagged internal (Internal = 1) exactly when both zone
\* indices of its records are below 1158
C19_InternalFlagIffBothZonesInternal ==
    (pc = "resolver" /\ calls = 1) =>
        \A r \in Range(other_tickets_df) \cup Range(no_factors_df) :
            (r.Internal = 1) <=> InternalMovement(lastMx, r)

\* lines 1279-1347 for a sequence of units: the three tables threaded through
\* one resolver call per unit, starting from the factor table as read
RECURSIVE RunUnits(_, _)
RunUnits(T, units) ==
    IF units = <<>>
    THEN [upd_edge_factors |-> T, other_tickets_df |-> <<>>, no_factors_df |-> <<>>]
    ELSE LET before == RunUnits(T, SubSeq(units, 1, Len(units) - 1))
         IN create_factors_for_missing_moira_movements(
                units[Len(units)], before.upd_edge_factors,
                before.other_tickets_df, before.no_factors_df)

\* the audit totals the gate computes from the tables of a run
AuditTotals(run) ==
    [substitution |-> SumSkipNa(Column(run.other_tickets_df, "T_Demand")),
     unfactored   |-> SumSkipNa(Column(run.no_factors_df, "T_Demand"))]

\* C20 as claimed: after two units, the totals of the substitution audit and
\* of the unfactored audit are the ones the same two units give when they are
\* processed in the other order
C20_AuditOrderIndependent ==
    (pc = "resolver" /\ calls = 2 /\ KeysUnique(edgeFactors0)) =>
        \A first \in MxChoices :
            LET run == RunUnits(edgeFactors0, <<first, lastMx>>)
            IN (/\ run.upd_edge_factors = edge_growth_factors
                /\ run.other_tickets_df = other_tickets_df
                /\ run.no_factors_df = no_factors_df)
               => AuditTotals(RunUnits(edgeFactors0, <<lastMx, first>>))
                      = AuditTotals(run)

\* the factored records of a unit processed first, on the factor table as read
FactoredAlone(m, mx, T) ==
    GrownColumns(JoinedByMethod(m, mx,
        create_factors_for_missing_moira_movements(mx, T, <<>>, <<>>).upd_edge_factors))

\* C21 as claimed: the factored records of the second unit are the ones the
\* same unit gives when it is processed first, under either method
C21_UnitsIndependent ==
    (pc = "growth" /\ calls = 2 /\ KeysUnique(edgeFactors0)) =>
        GrownColumns(joined) = FactoredAlone(method, lastMx, edgeFactors0)

IsPrefix(s, t) == Len(s) <= Len(t) /\ SubSeq(t, 1, Len(s)) = s

\* the factor records that hold a growth rate
RatedRows(T) == SelectSeq(T, LAMBDA f : f.Demand_rate # NaN)

\* C23 as claimed: a resolver call leaves every row of both audits and every
\* record of the factor table present and unchanged, and only appends
C23_AccumulationOnly ==
    [][ /\ IsPrefix(other_tickets_df, other_tickets_df')
        /\ IsPrefix(no_factors_df, no_factors_df')
        /\ IsPrefix(edge_growth_factors, edge_growth_factors')
      ]_vars

\* C23: both audits are empty before the first call; a resolver call leaves
\* every row of both audits, and every factor record that holds a growth
\* rate, present, unchanged and in its order, and only appends; factor
\* records with an empty growth rate are removed by the call
C23_AccumulationOnlyRatedRows ==
    /\ (calls = 0 => (other_tickets_df = <<>> /\ no_factors_df = <<>>))
    /\ [][ /\ IsPrefix(other_tickets_df, other_tickets_df')
           /\ IsPrefix(no_factors_df, no_factors_df')
           /\ IsPrefix(RatedRows(edge_growth_factors), edge_growth_factors')
           /\ \A j \in DOMAIN edge_growth_factors' :
                  edge_growth_factors'[j].Demand_rate # NaN
         ]_vars

\* two calls on a table read with a record without rate and a record with
\* one: both audits and the factor table have grown
C23_Witness ==
    /\ pc = "resolver"
    /\ calls = 2
    /\ \E i \in DOMAIN edgeFactors0 : edgeFactors0[i].Demand_rate = NaN
    /\ \E i \in DOMAIN edgeFactors0 : edgeFactors0[i].Demand_rate # NaN
    /\ Borrowed(edge_growth_factors) # {}
    /\ other_tickets_df # <<>>
    /\ no_factors_df # <<>>

-----------------------------------------------------------------------------
(* The Flow & Band Classifier driven on its own: lines 1330-1333, on one    *)
(* record with any non-distance flow, distance and userclass                *)

\* distances around the thresholds, and no distance
DistanceChoices == {NaN, 0, 24, 25, 26, 99, 100, 101}

\* non-distance flows: the two that are refined, one that is not, and none
NonDistChoices ==
    {"Outside South East", "Outside South East to/from London", "South East", NaS}

ClassifierInputs ==
    {<<[from_stn_zone_id |-> 1, to_stn_zone_id |-> 2, userclass |-> uc,
        TAG_NonDist |-> n, Distance |-> dist, Demand |-> 4]>> :
        uc \in 1..9, n \in NonDistChoices, dist \in DistanceChoices}

InitClassifier ==
    /\ pc = "classify"
    /\ lastMx \in ClassifierInputs
    /\ joined = <<>>
    /\ edgeFactors0 = <<>>
    /\ edge_growth_factors = <<>>
    /\ other_tickets_df = <<>>
    /\ no_factors_df = <<>>
    /\ calls = 0
    /\ method = 0
    /\ scenario = <<>>
    /\ missingFiles = {}
    /\ period = 0
    /\ segment = 0
    /\ demand_total = 0
    /\ factored_matrices = <<>>
    /\ unitSums = <<>>
    /\ logging_info = <<>>
    /\ gate = "pending"
    /\ norms_matrices1 = <<>>
    /\ written = <<>>
    /\ exitStatus = NaN
    /\ notFound = NaS

\* lines 1331-1333: the TAG flow, then the purpose
Classify ==
    /\ pc = "classify"
    /\ joined' = assign_purposes(add_distance_band_tag_flow(lastMx))
    /\ pc' = "classified"
    /\ UNCHANGED <<edgeFactors0, edge_growth_factors, other_tickets_df, no_factors_df,
                   calls, lastMx, method, runVars>>

NextClassifier == Classify

SpecClassifier == InitClassifier /\ [][NextClassifier]_vars

\* C24: a record with a distance and flow 'Outside South East' gets the
\* label of the one band its distance is in (below 25; 25 to below 100; 100
\* and above), a record with a distance and flow 'Outside South East to/from
\* London' the label of its one band (below 100; 100 and above), and any
\* other record, or a record without distance, keeps its non-distance flow
C24_DistanceBands ==
    pc = "classified" =>
        /\ Len(joined) = Len(lastMx)
        /\ \A i \in DOMAIN joined :
              LET n == lastMx[i].TAG_NonDist
                  dist == lastMx[i].Distance
                  t == joined[i].TAG_Flow
              IN /\ (n = "Outside South East" /\ dist # NaN) =>
                        /\ t \in {"Outside South East <25 miles",
                                  "Outside South East 25 to 100 miles",
                                  "Outside South East  100 + miles - adjusted"}
                        /\ (t = "Outside South East <25 miles") <=> (dist < 25)
                        /\ (t = "Outside South East 25 to 100 miles")
                               <=> (dist >= 25 /\ dist < 100)
                        /\ (t = "Outside South East  100 + miles - adjusted")
                               <=> (dist >= 100)
                 /\ (n = "Outside South East to/from London" /\ dist # NaN) =>
                        /\ t \in {"Outside South East to/from London < 100 miles",
                                  "Outside South East to/from London 100 + miles"}
                        /\ (t = "Outside South East to/from London < 100 miles")
                               <=> (dist < 100)
                        /\ (t = "Outside South East to/from London 100 + miles")
                               <=> (dist >= 100)
                 /\ (dist = NaN \/ n \notin {"Outside South East",
                                             "Outside South East to/from London"})
                        => t = n
                 /\ \A f \in DOMAIN lastMx[i] : joined[i][f] = lastMx[i][f]

\* a record exactly on the 25 mile threshold and one exactly on the 100 mile
\* threshold of each flow have been classified
C24_Witness ==
    /\ pc = "classified"
    /\ lastMx[1].Distance \in {25, 100}
    /\ lastMx[1].TAG_NonDist \in {"Outside South East",
                                  "Outside South East to/from London"}
    /\ joined[1].TAG_Flow # lastMx[1].TAG_NonDist

\* C27: every userclass in 1..9 gets one purpose: 1-3 Business, 4-6
\* Commuting, 7-9 Leisure, whatever the other columns of the record hold
C27_PurposePartition ==
    pc = "classified" =>
        \A i \in DOMAIN joined :
            LET uc == joined[i].userclass
            IN /\ uc = lastMx[i].userclass
               /\ uc \in 1..3 => joined[i].Purpose = "Business"
               /\ uc \in 4..6 => joined[i].Purpose = "Commuting"
               /\ uc \in 7..9 => joined[i].Purpose = "Leisure"
               /\ Cardinality({p \in {"Business", "Commuting", "Leisure"} :
                                  joined[i].Purpose = p}) = 1

\* a record of userclass 6, the last of the commuting classes, on a flow
\* without distance has been given its purpose
C27_Witness ==
    /\ pc = "classified"
    /\ joined[1].userclass = 6
    /\ joined[1].Purpose = "Commuting"
    /\ lastMx[1].Distance = NaN

-----------------------------------------------------------------------------
(* The Movement Expander driven on its own: lines 1323-1327, on the demand  *)
(* cells of one segment, outbound or to-home                                *)

PropsRow(fz, tz, uc, fs, ts, prop) ==
    [from_model_zone_id |-> fz, to_model_zone_id |-> tz, userclass |-> uc,
     from_stn_zone_id |-> fs, to_stn_zone_id |-> ts, proportion |-> prop]

\* split probabilities of userclasses 1 and 5, in 1/PropDen: zone pair (1,2)
\* uses stations 1 to 2 and 1 to 3 by halves (station 3 has no distance and no
\* code), (2,1) stations 2 to 1, half of (1,1) has no station and half uses
\* 1 to 2; (2,2) has no row, and userclass 9 has none at all
ExpanderProps ==
    Flatten([k \in 1..2 |->
        LET uc == IF k = 1 THEN 1 ELSE 5
        IN <<PropsRow(1, 2, uc, 1, 2, PropDen \div 2),
             PropsRow(1, 2, uc, 1, 3, PropDen \div 2),
             PropsRow(2, 1, uc, 2, 1, PropDen),
             PropsRow(1, 1, uc, 0, 0, PropDen \div 2),
             PropsRow(1, 1, uc, 1, 2, PropDen \div 2)>>])

\* the demand cells of a segment after line 1322: one or two zone pairs in
\* ascending order, one userclass, Demand 1.5 or 4.0 (in 1/DemDen)
ExpanderCells ==
    LET pairs == {<<1, 1>>, <<1, 2>>, <<2, 1>>, <<2, 2>>}
        cell(zp, uc, dem) == DemandRow(zp[1], zp[2], dem) @@ [userclass |-> uc]
    IN {<<cell(zp, uc, dem)>> : zp \in pairs, uc \in {1, 5, 9}, dem \in {3, 8}}
       \cup UNION {{<<cell(zp1, uc, dem1), cell(zp2, uc, dem2)>> :
                       zp2 \in {z \in pairs : LexLess(zp1, z)},
                       uc \in {1, 5, 9}, dem1 \in {3, 8}, dem2 \in {3, 8}} :
                    zp1 \in pairs}

InitExpander ==
    /\ pc = "expand"
    /\ lastMx \in ExpanderCells
    /\ segment \in {"HBEBCA_Int", "HBEBCA_Int_T"}
    /\ joined = <<>>
    /\ edgeFactors0 = <<>>
    /\ edge_growth_factors = <<>>
    /\ other_tickets_df = <<>>
    /\ no_factors_df = <<>>
    /\ calls = 0
    /\ method = 0
    /\ scenario = <<>>
    /\ missingFiles = {}
    /\ period = 0
    /\ demand_total = 0
    /\ factored_matrices = <<>>
    /\ unitSums = <<>>
    /\ logging_info = <<>>
    /\ gate = "pending"
    /\ norms_matrices1 = <<>>
    /\ written = <<>>
    /\ exitStatus = NaN
    /\ notFound = NaS

\* lines 1323-1327: the expander of the segment
Expand ==
    /\ pc = "expand"
    /\ joined' = IF segment \in internal_to_home
                 THEN prepare_stn2stn_matrix_tohome(lastMx, ExpanderProps, distMX,
                                                    norms_to_edge_stns)
                 ELSE prepare_stn2stn_matrix(lastMx, ExpanderProps, distMX,
                                             norms_to_edge_stns)
    /\ pc' = "expanded"
    /\ UNCHANGED <<edgeFactors0, edge_growth_factors, other_tickets_df, no_factors_df,
                   calls, lastMx, method, runVars>>

NextExpander == Expand

SpecExpander == InitExpander /\ [][NextExpander]_vars

\* the station records of a demand table: its zone pair, station pair,
\* userclass and Demand
StationRecords(df) ==
    {[f \in {"from_model_zone_id", "to_model_zone_id", "from_stn_zone_id",
             "to_stn_zone_id", "userclass", "Demand"} |-> df[i][f]] : i \in DOMAIN df}

\* the probability rows keyed by the zone pair and userclass of demand cell c
\* whose origin station is not the sentinel 0
RowsOfCell(c, props) ==
    {j \in DOMAIN props :
        /\ props[j].from_model_zone_id = c.from_model_zone_id
        /\ props[j].to_model_zone_id = c.to_model_zone_id
        /\ props[j].userclass = c.userclass
        /\ props[j].from_stn_zone_id # 0}

\* C25: for a to-home segment, the station records are exactly one per demand
\* cell (a -> b, u) and probability row keyed (a, b, u) without the sentinel
\* origin; the record carries the swapped zone pair (b -> a), the stations of
\* the row and the cell's demand times the row's proportion
C25_ToHomeExpansion ==
    (pc = "expanded" /\ segment \in internal_to_home) =>
        LET expected ==
                {[from_model_zone_id |-> lastMx[i].to_model_zone_id,
                  to_model_zone_id   |-> lastMx[i].from_model_zone_id,
                  from_stn_zone_id   |-> ExpanderProps[j].from_stn_zone_id,
                  to_stn_zone_id     |-> ExpanderProps[j].to_stn_zone_id,
                  userclass          |-> lastMx[i].userclass,
                  Demand |-> lastMx[i].Demand * ExpanderProps[j].proportion] :
                   <<i, j>> \in {<<i, j>> \in (DOMAIN lastMx) \X (DOMAIN ExpanderProps) :
                                   j \in RowsOfCell(lastMx[i], ExpanderProps)}}
        IN /\ StationRecords(joined) = expected
           /\ Len(joined) = Cardinality(expected)

\* a to-home cell on zone pair (1,2), whose outbound probabilities use
\* stations 1 to 2 and 1 to 3, together with a cell on another zone pair
C25_Witness ==
    /\ pc = "expanded"
    /\ segment \in internal_to_home
    /\ Len(lastMx) = 2
    /\ \E i \in DOMAIN lastMx :
          lastMx[i].from_model_zone_id = 1 /\ lastMx[i].to_model_zone_id = 2
    /\ \E i \in DOMAIN joined :
          /\ joined[i].from_model_zone_id = 2
          /\ joined[i].to_model_zone_id = 1
          /\ joined[i].from_stn_zone_id = 1
          /\ joined[i].to_stn_zone_id = 3

\* C26: for an outbound segment, the station records are exactly one per
\* demand cell and probability row with the cell's (zone pair, userclass)
\* without the sentinel origin, with the cell's demand times the row's
\* proportion: a cell without a row gives no record, a row with origin
\* station 0 gives none, and nothing else is left out
C26_MovementExpansion ==
    (pc = "expanded" /\ segment \notin internal_to_home) =>
        LET expected ==
                {[from_model_zone_id |-> lastMx[i].from_model_zone_id,
                  to_model_zone_id   |-> lastMx[i].to_model_zone_id,
                  from_stn_zone_id   |-> ExpanderProps[j].from_stn_zone_id,
                  to_stn_zone_id     |-> ExpanderProps[j].to_stn_zone_id,
                  userclass          |-> lastMx[i].userclass,
                  Demand |-> lastMx[i].Demand * ExpanderProps[j].proportion] :
                   <<i, j>> \in {<<i, j>> \in (DOMAIN lastMx) \X (DOMAIN ExpanderProps) :
                                   j \in RowsOfCell(lastMx[i], ExpanderProps)}}
        IN /\ StationRecords(joined) = expected
           /\ Len(joined) = Cardinality(expected)
           /\ \A i \in DOMAIN joined : joined[i].from_stn_zone_id # 0

\* an outbound cell on zone pair (1,1), half of which has no station, and a
\* cell on zone pair (1,2) with a station without distance and code: the
\* sentinel record is gone, the record without distance is kept
C26_Witness ==
    /\ pc = "expanded"
    /\ segment \notin internal_to_home
    /\ Len(lastMx) = 2
    /\ lastMx[1].from_model_zone_id = 1 /\ lastMx[1].to_model_zone_id = 1
    /\ lastMx[2].from_model_zone_id = 1 /\ lastMx[2].to_model_zone_id = 2
    /\ Len(joined) = 3
    /\ \E i \in DOMAIN joined : joined[i].Distance = NaN /\ joined[i].D_TLC = NaS

\* C28: after any sequence of resolver calls, every borrowed row (Flag = 0)
\* of the factor table carries the growth rate of a row that was read from
\* the factor file with a rate, for the same (ZoneCodeFrom, ZoneCodeTo,
\* purpose) and another ticket type
C28_BorrowedFromDirect ==
    pc = "resolver" =>
        \A j \in DOMAIN edge_growth_factors :
            edge_growth_factors[j].Flag = 0 =>
                \E i \in DOMAIN edgeFactors0 :
                    /\ edgeFactors0[i].Flag = 1
                    /\ edgeFactors0[i].Demand_rate # NaN
                    /\ SameMovement(edgeFactors0[i], edge_growth_factors[j])
                    /\ edgeFactors0[i].TicketType # edge_growth_factors[j].TicketType
                    /\ edgeFactors0[i].Demand_rate = edge_growth_factors[j].Demand_rate

\* two calls on a table read with two ticket types of different rates: the
\* second call has searched a table that holds the borrowed row of the first
C28_Witness ==
    /\ pc = "resolver"
    /\ calls = 2
    /\ Len(edgeFactors0) = 2
    /\ edgeFactors0[1].Demand_rate # NaN
    /\ edgeFactors0[2].Demand_rate # NaN
    /\ edgeFactors0[1].Demand_rate # edgeFactors0[2].Demand_rate
    /\ edgeFactors0[1].TicketType # edgeFactors0[2].TicketType
    /\ Cardinality(Borrowed(edge_growth_factors)) = 1
    /\ \E m \in Range(Melt(lastMx)) : \E b \in Borrowed(edge_growth_factors) :
           SameKey(m, b)

\* C29: under method 2, with a factor table keyed uniquely, two records with
\* the same ticket type and purpose and opposite station codes are given the
\* same rate, and a record is given rate 1.0 when neither direction has a
\* factor
C29_MethodTwoSymmetric ==
    (pc = "growth" /\ method = 2 /\ KeysUnique(edgeFactors0)) =>
        /\ \A i, j \in DOMAIN joined :
               ReverseKey(joined[i], joined[j]) =>
                   joined[i].Applied_rate = joined[j].Applied_rate
        /\ \A i \in DOMAIN joined :
               (/\ FactorsOfKey(edge_growth_factors, joined[i]) = {}
                /\ \A k \in DOMAIN edge_growth_factors :
                       ~ReverseKey(joined[i], edge_growth_factors[k]))
                   => joined[i].Applied_rate = 2 * RateDen

\* method 2 on records of both directions of a key, where one direction has
\* a factor other than 1.0 and the other has none
C29_Witness ==
    /\ pc = "growth"
    /\ method = 2
    /\ KeysUnique(edgeFactors0)
    /\ \E i, j \in DOMAIN joined :
          /\ ReverseKey(joined[i], joined[j])
          /\ joined[i].Dir1_Growth \notin {NaN, RateDen}
          /\ joined[i].Dir2_Growth = NaN
          /\ joined[j].Dir1_Growth = NaN
          /\ joined[j].Applied_rate # 2 * RateDen

\* transpose_matrix as its caller's frame is left: lines 1149-1153 assign the
\* columns of the frame passed in (only line 1155 makes a new frame), so the
\* caller's matrix has its zone columns swapped and two more columns
transpose_matrix_input(mx) ==
    [i \in DOMAIN mx |->
        [from |-> mx[i].to_model_zone_id, to |-> mx[i].from_model_zone_id]
        @@ [mx[i] EXCEPT !.from_model_zone_id = mx[i].to_model_zone_id,
                         !.to_model_zone_id = mx[i].from_model_zone_id]]

\* the input dictionary after fromto_2_from_by_averaging: the to-home
\* matrices it passes to transpose_matrix
matrices_dict_after(matrices_dict) ==
    [seg \in DOMAIN matrices_dict |->
        IF seg \in {s \o "_T" : s \in AveragedSegments}
        THEN transpose_matrix_input(matrices_dict[seg])
        ELSE matrices_dict[seg]]

\* C30 as claimed: the call of fromto_2_from_by_averaging leaves the daily
\* matrices of its input dictionary as they were, and a second call on the
\* same dictionary returns the matrices the first call returned
C30_InputDictionaryUnchanged ==
    pc \in {"write", "Completed"} =>
        /\ matrices_dict_after(Daily) = Daily
        /\ fromto_2_from_by_averaging(matrices_dict_after(Daily)) = norms_matrices1

=============================================================================
